---------------------------- MODULE Spec2Model ----------------------------
(***************************************************************************)
(* The battle engine of the Pokemon MCP server (src/index.ts): the static  *)
(* tables, stat scaling, combatant creation, the damage formula and the    *)
(* tool handlers that act on the single module-level battle.               *)
(*                                                                         *)
(* Conventions of the model                                                *)
(*  - A JavaScript string is a sequence of one-character strings, so that  *)
(*    toLowerCase is computed character by character.                      *)
(*  - A value that may be undefined or null is None (<<>>) or Some(v)      *)
(*    (<<v>>).                                                             *)
(*  - A chart multiplier is stored in halves (0.5 is 1, 1 is 2, 2 is 4);   *)
(*    every other fraction is a record [num, den].                         *)
(*  - Math.random() is a draw k of 0..N-1 standing for k/N.                *)
(***************************************************************************)
EXTENDS Integers, Sequences, FiniteSets, TLC

VARIABLES
  currentBattle,  \* None, or Some(BattleState): the module-level singleton
  lastCall,       \* None, or Some([tool, args]): the tool call handled last
  lastResult,     \* None, or Some([error, report]): what that call returned
  battleBefore,   \* history: the value of currentBattle when the last call
                  \* arrived
  battleAtStart,  \* history: the value the last accepted start_battle gave
                  \* currentBattle
  attackers,      \* history: the slots of the combatants that made the
                  \* accepted attacks of the current battle, in order
  draws,          \* history: the values Math.random() gave the accuracy
                  \* check and the damage formula of the last call
  httpTransports, \* the ids of the open HTTP sessions, each with a server
                  \* instance of its own (src/unnamed/part_000)
  callers         \* history: the server instance that handled the last
                  \* call, and the one that started the current battle

vars == <<currentBattle, lastCall, lastResult, battleBefore, battleAtStart,
          attackers, draws, httpTransports, callers>>

---------------------------------------------------------------------------
(* Optional values and small helpers *)

None == <<>>

Some(v) == <<v>>

IsSome(o) == o # None

Get(o) == o[1]

Range(s) == {s[i] : i \in DOMAIN s}

Min(a, b) == IF a <= b THEN a ELSE b

Max(a, b) == IF a >= b THEN a ELSE b

---------------------------------------------------------------------------
(* Strings *)

UpperChars ==
  <<"A","B","C","D","E","F","G","H","I","J","K","L","M",
    "N","O","P","Q","R","S","T","U","V","W","X","Y","Z">>

LowerChars ==
  <<"a","b","c","d","e","f","g","h","i","j","k","l","m",
    "n","o","p","q","r","s","t","u","v","w","x","y","z">>

\* The lower-case form of each upper-case letter
LowerOf ==
  [c \in Range(UpperChars) |->
     LowerChars[CHOOSE i \in DOMAIN UpperChars : UpperChars[i] = c]]

LowerChar(c) == IF c \in DOMAIN LowerOf THEN LowerOf[c] ELSE c

\* String.prototype.toLowerCase
toLowerCase(s) == [i \in 1..Len(s) |-> LowerChar(s[i])]

---------------------------------------------------------------------------
(* Static data *)

\* attacking type -> { defending type: multiplier }, multipliers in halves;
\* omitted entries default to 1x
TYPE_EFFECTIVENESS ==
  [
     normal   |-> [rock |-> 1, ghost |-> 0, steel |-> 1],
     fire     |-> [fire |-> 1, water |-> 1, grass |-> 4, ice |-> 4, bug |-> 4, rock |-> 1, dragon |-> 1, steel |-> 4],
     water    |-> [fire |-> 4, water |-> 1, grass |-> 1, ground |-> 4, rock |-> 4, dragon |-> 1],
     electric |-> [water |-> 4, electric |-> 1, grass |-> 1, ground |-> 0, flying |-> 4, dragon |-> 1],
     grass    |-> [fire |-> 1, water |-> 4, grass |-> 1, poison |-> 1, ground |-> 4, flying |-> 1, bug |-> 1, rock |-> 4, dragon |-> 1, steel |-> 1],
     ice      |-> [fire |-> 1, water |-> 1, grass |-> 4, ice |-> 1, ground |-> 4, flying |-> 4, dragon |-> 4, steel |-> 1],
     fighting |-> [normal |-> 4, ice |-> 4, poison |-> 1, flying |-> 1, psychic |-> 1, bug |-> 1, rock |-> 4, ghost |-> 0, dark |-> 4, steel |-> 4, fairy |-> 1],
     poison   |-> [grass |-> 4, poison |-> 1, ground |-> 1, rock |-> 1, ghost |-> 1, steel |-> 0, fairy |-> 4],
     ground   |-> [fire |-> 4, electric |-> 4, grass |-> 1, poison |-> 4, flying |-> 0, bug |-> 1, rock |-> 4, steel |-> 4],
     flying   |-> [electric |-> 1, grass |-> 4, fighting |-> 4, bug |-> 4, rock |-> 1, steel |-> 1],
     psychic  |-> [fighting |-> 4, poison |-> 4, psychic |-> 1, dark |-> 0, steel |-> 1],
     bug      |-> [fire |-> 1, grass |-> 4, fighting |-> 1, poison |-> 1, flying |-> 1, psychic |-> 4, ghost |-> 1, dark |-> 4, steel |-> 1, fairy |-> 1],
     rock     |-> [fire |-> 4, ice |-> 4, fighting |-> 1, ground |-> 1, flying |-> 4, bug |-> 4, steel |-> 1],
     ghost    |-> [normal |-> 0, psychic |-> 4, ghost |-> 4, dark |-> 1],
     dragon   |-> [dragon |-> 4, steel |-> 1, fairy |-> 0],
     dark     |-> [fighting |-> 1, psychic |-> 4, ghost |-> 4, dark |-> 1, fairy |-> 1],
     steel    |-> [fire |-> 1, water |-> 1, electric |-> 1, ice |-> 4, rock |-> 4, steel |-> 1, fairy |-> 4],
     fairy    |-> [fire |-> 1, fighting |-> 4, poison |-> 1, dragon |-> 4, dark |-> 4, steel |-> 1]
  ]

POKEMON_DB ==
  <<
     [id |-> 1, name |-> <<"B","u","l","b","a","s","a","u","r">>,
      types |-> <<"grass", "poison">>,
      baseStats |-> [hp |-> 45, attack |-> 49, defense |-> 49, speed |-> 45],
      movePool |->
        <<<<"V","i","n","e"," ","W","h","i","p">>,
          <<"T","a","c","k","l","e">>,
          <<"S","l","u","d","g","e"," ","B","o","m","b">>,
          <<"I","c","e"," ","B","e","a","m">>>>],
     [id |-> 4, name |-> <<"C","h","a","r","m","a","n","d","e","r">>,
      types |-> <<"fire">>,
      baseStats |-> [hp |-> 39, attack |-> 52, defense |-> 43, speed |-> 65],
      movePool |->
        <<<<"E","m","b","e","r">>,
          <<"F","l","a","m","e","t","h","r","o","w","e","r">>,
          <<"T","a","c","k","l","e">>,
          <<"D","r","a","g","o","n"," ","C","l","a","w">>>>],
     [id |-> 7, name |-> <<"S","q","u","i","r","t","l","e">>,
      types |-> <<"water">>,
      baseStats |-> [hp |-> 44, attack |-> 48, defense |-> 65, speed |-> 43],
      movePool |->
        <<<<"W","a","t","e","r"," ","G","u","n">>,
          <<"S","u","r","f">>,
          <<"T","a","c","k","l","e">>,
          <<"I","c","e"," ","B","e","a","m">>>>],
     [id |-> 25, name |-> <<"P","i","k","a","c","h","u">>,
      types |-> <<"electric">>,
      baseStats |-> [hp |-> 35, attack |-> 55, defense |-> 40, speed |-> 90],
      movePool |->
        <<<<"T","h","u","n","d","e","r"," ","S","h","o","c","k">>,
          <<"T","h","u","n","d","e","r","b","o","l","t">>,
          <<"T","a","c","k","l","e">>,
          <<"S","u","r","f">>>>],
     [id |-> 143, name |-> <<"S","n","o","r","l","a","x">>,
      types |-> <<"normal">>,
      baseStats |-> [hp |-> 160, attack |-> 110, defense |-> 65, speed |-> 30],
      movePool |->
        <<<<"T","a","c","k","l","e">>,
          <<"E","a","r","t","h","q","u","a","k","e">>,
          <<"I","c","e"," ","B","e","a","m">>,
          <<"S","h","a","d","o","w"," ","B","a","l","l">>>>],
     [id |-> 150, name |-> <<"M","e","w","t","w","o">>,
      types |-> <<"psychic">>,
      baseStats |-> [hp |-> 106, attack |-> 110, defense |-> 90, speed |-> 130],
      movePool |->
        <<<<"P","s","y","c","h","i","c">>,
          <<"S","h","a","d","o","w"," ","B","a","l","l">>,
          <<"I","c","e"," ","B","e","a","m">>,
          <<"F","l","a","m","e","t","h","r","o","w","e","r">>>>],
     [id |-> 94, name |-> <<"G","e","n","g","a","r">>,
      types |-> <<"ghost", "poison">>,
      baseStats |-> [hp |-> 60, attack |-> 65, defense |-> 60, speed |-> 110],
      movePool |->
        <<<<"S","h","a","d","o","w"," ","B","a","l","l">>,
          <<"S","l","u","d","g","e"," ","B","o","m","b">>,
          <<"P","s","y","c","h","i","c">>,
          <<"T","h","u","n","d","e","r","b","o","l","t">>>>],
     [id |-> 149, name |-> <<"D","r","a","g","o","n","i","t","e">>,
      types |-> <<"dragon", "flying">>,
      baseStats |-> [hp |-> 91, attack |-> 134, defense |-> 95, speed |-> 80],
      movePool |->
        <<<<"D","r","a","g","o","n"," ","C","l","a","w">>,
          <<"F","l","a","m","e","t","h","r","o","w","e","r">>,
          <<"I","c","e"," ","B","e","a","m">>,
          <<"E","a","r","t","h","q","u","a","k","e">>>>],
     [id |-> 448, name |-> <<"L","u","c","a","r","i","o">>,
      types |-> <<"fighting", "steel">>,
      baseStats |-> [hp |-> 70, attack |-> 110, defense |-> 70, speed |-> 90],
      movePool |->
        <<<<"C","l","o","s","e"," ","C","o","m","b","a","t">>,
          <<"E","a","r","t","h","q","u","a","k","e">>,
          <<"S","h","a","d","o","w"," ","B","a","l","l">>,
          <<"I","c","e"," ","B","e","a","m">>>>],
     [id |-> 445, name |-> <<"G","a","r","c","h","o","m","p">>,
      types |-> <<"dragon", "ground">>,
      baseStats |-> [hp |-> 108, attack |-> 130, defense |-> 95, speed |-> 102],
      movePool |->
        <<<<"D","r","a","g","o","n"," ","C","l","a","w">>,
          <<"E","a","r","t","h","q","u","a","k","e">>,
          <<"F","l","a","m","e","t","h","r","o","w","e","r">>,
          <<"S","h","a","d","o","w"," ","B","a","l","l">>>>]
  >>

MOVES_DB ==
  <<
     [name |-> <<"T","a","c","k","l","e">>,
      type |-> "normal", power |-> 40, accuracy |-> 100, category |-> "physical"],
     [name |-> <<"E","m","b","e","r">>,
      type |-> "fire", power |-> 40, accuracy |-> 100, category |-> "special"],
     [name |-> <<"W","a","t","e","r"," ","G","u","n">>,
      type |-> "water", power |-> 40, accuracy |-> 100, category |-> "special"],
     [name |-> <<"T","h","u","n","d","e","r"," ","S","h","o","c","k">>,
      type |-> "electric", power |-> 40, accuracy |-> 100, category |-> "special"],
     [name |-> <<"V","i","n","e"," ","W","h","i","p">>,
      type |-> "grass", power |-> 45, accuracy |-> 100, category |-> "physical"],
     [name |-> <<"I","c","e"," ","B","e","a","m">>,
      type |-> "ice", power |-> 90, accuracy |-> 100, category |-> "special"],
     [name |-> <<"E","a","r","t","h","q","u","a","k","e">>,
      type |-> "ground", power |-> 100, accuracy |-> 90, category |-> "physical"],
     [name |-> <<"P","s","y","c","h","i","c">>,
      type |-> "psychic", power |-> 90, accuracy |-> 100, category |-> "special"],
     [name |-> <<"S","h","a","d","o","w"," ","B","a","l","l">>,
      type |-> "ghost", power |-> 80, accuracy |-> 100, category |-> "special"],
     [name |-> <<"D","r","a","g","o","n"," ","C","l","a","w">>,
      type |-> "dragon", power |-> 80, accuracy |-> 100, category |-> "physical"],
     [name |-> <<"F","l","a","m","e","t","h","r","o","w","e","r">>,
      type |-> "fire", power |-> 90, accuracy |-> 100, category |-> "special"],
     [name |-> <<"S","u","r","f">>,
      type |-> "water", power |-> 90, accuracy |-> 100, category |-> "special"],
     [name |-> <<"T","h","u","n","d","e","r","b","o","l","t">>,
      type |-> "electric", power |-> 90, accuracy |-> 100, category |-> "special"],
     [name |-> <<"S","l","u","d","g","e"," ","B","o","m","b">>,
      type |-> "poison", power |-> 90, accuracy |-> 100, category |-> "special"],
     [name |-> <<"C","l","o","s","e"," ","C","o","m","b","a","t">>,
      type |-> "fighting", power |-> 120, accuracy |-> 85, category |-> "physical"]
  >>

PokemonTypes == DOMAIN TYPE_EFFECTIVENESS

\* Object.keys(TYPE_EFFECTIVENESS) as JavaScript strings
TypeChars ==
  [
     normal   |-> <<"n","o","r","m","a","l">>,
     fire     |-> <<"f","i","r","e">>,
     water    |-> <<"w","a","t","e","r">>,
     electric |-> <<"e","l","e","c","t","r","i","c">>,
     grass    |-> <<"g","r","a","s","s">>,
     ice      |-> <<"i","c","e">>,
     fighting |-> <<"f","i","g","h","t","i","n","g">>,
     poison   |-> <<"p","o","i","s","o","n">>,
     ground   |-> <<"g","r","o","u","n","d">>,
     flying   |-> <<"f","l","y","i","n","g">>,
     psychic  |-> <<"p","s","y","c","h","i","c">>,
     bug      |-> <<"b","u","g">>,
     rock     |-> <<"r","o","c","k">>,
     ghost    |-> <<"g","h","o","s","t">>,
     dragon   |-> <<"d","r","a","g","o","n">>,
     dark     |-> <<"d","a","r","k">>,
     steel    |-> <<"s","t","e","e","l">>,
     fairy    |-> <<"f","a","i","r","y">>
  ]

\* The properties an object literal inherits from Object.prototype: a lookup
\* TYPE_EFFECTIVENESS[key] finds them beside the chart's own keys
ObjectPrototypeKeys ==
  {<<"c","o","n","s","t","r","u","c","t","o","r">>,
   <<"_","_","d","e","f","i","n","e","G","e","t","t","e","r","_","_">>,
   <<"_","_","d","e","f","i","n","e","S","e","t","t","e","r","_","_">>,
   <<"h","a","s","O","w","n","P","r","o","p","e","r","t","y">>,
   <<"_","_","l","o","o","k","u","p","G","e","t","t","e","r","_","_">>,
   <<"_","_","l","o","o","k","u","p","S","e","t","t","e","r","_","_">>,
   <<"i","s","P","r","o","t","o","t","y","p","e","O","f">>,
   <<"p","r","o","p","e","r","t","y","I","s","E","n","u","m","e","r","a","b","l","e">>,
   <<"t","o","S","t","r","i","n","g">>,
   <<"v","a","l","u","e","O","f">>,
   <<"_","_","p","r","o","t","o","_","_">>,
   <<"t","o","L","o","c","a","l","e","S","t","r","i","n","g">>}

---------------------------------------------------------------------------
(* Bounds of the model *)

\* attack is not explored once an active battle's turn counter reaches this
MaxTurn == 4

\* Math.random() takes the values k/RandomSteps in the damage formula
RandomSteps == 2

\* Math.random() takes the values k/LevelSteps when a level is drawn
LevelSteps == 1

\* calcStat is explored with the base values 1..MaxBase
MaxBase == 160

\* The draws of Math.random() when the default level is examined on its own
LevelDraws == 100

---------------------------------------------------------------------------
(* The arguments the calls are explored with *)

\* The levels the tools' input schemas allow
MinLevel == 1

MaxLevel == 100

\* Math.random() * 100 in the accuracy check: both moves' thresholds (85 and
\* 90), their neighbours and the ends of [0, 100)
AccuracyRolls == {0, 84, 85, 89, 90, 99}

\* The arguments of start_battle: a single-type and a dual-type catalog
\* species in other letter case than the catalog's and a name the catalog
\* lacks, with levels given or absent (drawn at random)
StartBattleArgs ==
  LET pikachu   == Some(<<"p","i","k","a","c","h","u">>)
      dragonite == Some(<<"D","R","A","G","O","N","I","T","E">>)
      missingNo == Some(<<"M","i","s","s","i","n","g","N","o">>)
      Args(n1, l1, n2, l2) ==
        [pokemon1_name |-> n1, pokemon1_level |-> l1,
         pokemon2_name |-> n2, pokemon2_level |-> l2]
  IN  {Args(pikachu,   None,     dragonite, None),
       Args(dragonite, Some(50), pikachu,   Some(50)),
       Args(dragonite, None,     pikachu,   Some(50)),
       Args(dragonite, Some(50), pikachu,   None),
       Args(pikachu,   Some(50), pikachu,   Some(50)),
       Args(missingNo, Some(50), pikachu,   None),
       Args(dragonite, None,     missingNo, Some(50)),
       Args(missingNo, None,     missingNo, None)}

\* attacker_name: the two species above and a catalog species that is never
\* in a battle of this model
AttackerNameArgs ==
  {Some(<<"P","I","K","A","C","H","U">>),
   Some(<<"d","r","a","g","o","n","i","t","e">>),
   Some(<<"M","e","w","t","w","o">>)}

\* move_name: a move of each species, a move no species has, and an absent
\* argument
MoveNameArgs ==
  {Some(<<"t","h","u","n","d","e","r","b","o","l","t">>),
   Some(<<"E","a","r","t","h","q","u","a","k","e">>),
   Some(<<"I","C","E"," ","B","E","A","M">>),
   Some(<<"H","y","p","e","r"," ","B","e","a","m">>),
   None}

---------------------------------------------------------------------------
(* Battle utilities *)

\* Math.floor(n / d) for an integer n and d > 0
FloorDiv(n, d) == n \div d

\* Math.floor((x * num) / (c * den)) for naturals, computed without forming
\* x * num: with x = q*c + r, (x*num)/(c*den) = (q*num + (r*num)/c) / den
MulDivFloor(x, num, c, den) ==
  LET q == x \div c
      r == x % c
  IN  (q * num + ((r * num) \div c)) \div den

\* Mutant of calcStat: a non-health attribute lacks the offset 5
calcStat_NoOffset(base, level, isHP) ==
  IF isHP
    THEN FloorDiv(2 * base * level, 100) + level + 10
    ELSE FloorDiv(2 * base * level, 100)

calcStat(base, level, isHP) ==
  IF isHP
    THEN FloorDiv(2 * base * level, 100) + level + 10
    ELSE FloorDiv(2 * base * level, 100) + 5

\* MOVES_DB.filter(m => species.movePool.includes(m.name))
AvailableMoves(species) ==
  {m \in Range(MOVES_DB) : m.name \in Range(species.movePool)}

\* Mutant of MoveDraws: the slice ends one move early
MoveDraws_OneFewer(species, moveCount) ==
  LET available == AvailableMoves(species)
      n == Min(moveCount, Cardinality(available)) - 1
  IN  {ms \in SUBSET available : Cardinality(ms) = n}

\* [...available].sort(() => Math.random() - 0.5).slice(0, min(moveCount, n)):
\* every choice of that many distinct moves (the order is only shown in text)
MoveDraws(species, moveCount) ==
  LET available == AvailableMoves(species)
      n == Min(moveCount, Cardinality(available))
  IN  {ms \in SUBSET available : Cardinality(ms) = n}

\* Mutant of createBattlePokemon: currentHp keeps the 0 it is initialised
\* with
createBattlePokemon_HpNotSet(species, level, moveCount) ==
  {[id        |-> species.id,
    name      |-> species.name,
    types     |-> species.types,
    baseStats |-> species.baseStats,
    movePool  |-> species.movePool,
    stats     |-> [level     |-> level,
                   hp        |-> calcStat(species.baseStats.hp, level, TRUE),
                   attack    |-> calcStat(species.baseStats.attack, level, FALSE),
                   defense   |-> calcStat(species.baseStats.defense, level, FALSE),
                   speed     |-> calcStat(species.baseStats.speed, level, FALSE),
                   currentHp |-> 0],
    moves     |-> ms,
    status    |-> None] : ms \in MoveDraws(species, moveCount)}

\* The combatants createBattlePokemon can return
createBattlePokemon(species, level, moveCount) ==
  LET hp == calcStat(species.baseStats.hp, level, TRUE)
      stats == [level     |-> level,
                hp        |-> hp,
                attack    |-> calcStat(species.baseStats.attack, level, FALSE),
                defense   |-> calcStat(species.baseStats.defense, level, FALSE),
                speed     |-> calcStat(species.baseStats.speed, level, FALSE),
                currentHp |-> hp]
  IN  {[id        |-> species.id,
        name      |-> species.name,
        types     |-> species.types,
        baseStats |-> species.baseStats,
        movePool  |-> species.movePool,
        stats     |-> stats,
        moves     |-> ms,
        status    |-> None] : ms \in MoveDraws(species, moveCount)}

\* chart?.[t] ?? 1, in halves
ChartLookup(moveType, defType) ==
  LET chart == TYPE_EFFECTIVENESS[moveType]
  IN  IF defType \in DOMAIN chart THEN chart[defType] ELSE 2

\* The product of the chart lookups over the first n defender types, as a
\* fraction
RECURSIVE TypeProduct(_, _, _)
TypeProduct(moveType, types, n) ==
  IF n = 0
    THEN [num |-> 1, den |-> 1]
    ELSE LET rest == TypeProduct(moveType, types, n - 1)
         IN  [num |-> rest.num * ChartLookup(moveType, types[n]),
              den |-> rest.den * 2]

\* Mutant of CapEffectiveness: the product is applied as it is
CapEffectiveness_NoCap(e) == e

\* Math.min(effectiveness, 2)
CapEffectiveness(e) ==
  IF e.num > 2 * e.den THEN [num |-> 2, den |-> 1] ELSE e

\* The effectiveness calculateDamage applies
DamageEffectiveness(defender, move) ==
  CapEffectiveness(TypeProduct(move.type, defender.types, Len(defender.types)))

\* attacker.types.includes(move.type)
HasStab(attacker, move) == move.type \in Range(attacker.types)

\* stab, in halves
StabFactor(attacker, move) == IF HasStab(attacker, move) THEN 3 ELSE 2

\* (Math.random() * 0.15) + 0.85 for the draw k/RandomSteps, as a fraction
RandomFactor(k) == [num |-> 3 * k + 17 * RandomSteps, den |-> 20 * RandomSteps]

\* (((2 * level + 10) / 250) * (attackStat / defenseStat) * move.power) + 2
BaseDamage(attacker, defender, move) ==
  [num |-> (2 * attacker.stats.level + 10) * attacker.stats.attack * move.power
             + 2 * 250 * defender.stats.defense,
   den |-> 250 * defender.stats.defense]

\* Mutant of calculateDamage: a hit deals at least 1 damage
calculateDamage_AtLeastOne(attacker, defender, move, k) ==
  LET base == BaseDamage(attacker, defender, move)
      eff  == DamageEffectiveness(defender, move)
      rf   == RandomFactor(k)
  IN  Max(1, MulDivFloor(base.num * StabFactor(attacker, move) * eff.num,
                         rf.num, base.den * 2 * eff.den * 2, rf.den))

\* Math.floor((baseDamage * stab * effectiveness * randomFactor) / 2)
calculateDamage(attacker, defender, move, k) ==
  LET base == BaseDamage(attacker, defender, move)
      eff  == DamageEffectiveness(defender, move)
      rf   == RandomFactor(k)
  IN  MulDivFloor(base.num * StabFactor(attacker, move) * eff.num, rf.num,
                  base.den * 2 * eff.den * 2, rf.den)

---------------------------------------------------------------------------
(* Tool handlers.  Each handler is an operator from the battle and the     *)
(* call's arguments to the set of outcomes [battle, result] it can have    *)
(* (one per value of the random draws it makes).                           *)

\* The move count start_battle passes to createBattlePokemon
BattleMoveCount == 4

Error(kind) == [error |-> kind, report |-> None]

Ok(report) == [error |-> "", report |-> Some(report)]

\* Mutant of FindSpecies: the names are compared as they are
FindSpecies_ExactCase(name) ==
  LET hits == {i \in DOMAIN POKEMON_DB : POKEMON_DB[i].name = name}
  IN  IF hits = {}
        THEN None
        ELSE Some(POKEMON_DB[CHOOSE i \in hits : \A j \in hits : i <= j])

\* POKEMON_DB.find(p => p.name.toLowerCase() === name.toLowerCase())
FindSpecies(name) ==
  LET hits == {i \in DOMAIN POKEMON_DB :
                 toLowerCase(POKEMON_DB[i].name) = toLowerCase(name)}
  IN  IF hits = {}
        THEN None
        ELSE Some(POKEMON_DB[CHOOSE i \in hits : \A j \in hits : i <= j])

\* Mutant of DefaultLevel: the draw is scaled to 0..51
DefaultLevel_UpTo71(k, steps) == FloorDiv(52 * k, steps) + 20

\* Math.floor(Math.random() * 50) + 20 for the draw k/steps
DefaultLevel(k, steps) == FloorDiv(50 * k, steps) + 20

\* The default level for the draw k/LevelSteps
RandomLevel(k) == DefaultLevel(k, LevelSteps)

\* typeof level === "number" ? level : Math.floor(Math.random() * 50) + 20
LevelChoices(levelArg) ==
  IF IsSome(levelArg)
    THEN {Get(levelArg)}
    ELSE {RandomLevel(k) : k \in 0..(LevelSteps - 1)}

\* Mutant of LookupMoveCounts: the draw starts at 1
LookupMoveCounts_FromOne == {1, 2, 3}

\* Math.floor(Math.random() * 3) + 2: every value the draw can take
LookupMoveCounts == {2, 3, 4}

\* The facts of the text a lookup returns
LookupReport(header, pokemon) ==
  [header    |-> header,
   name      |-> pokemon.name,
   level     |-> pokemon.stats.level,
   types     |-> pokemon.types,
   currentHp |-> pokemon.stats.currentHp,
   hp        |-> pokemon.stats.hp,
   attack    |-> pokemon.stats.attack,
   defense   |-> pokemon.stats.defense,
   speed     |-> pokemon.stats.speed,
   moves     |-> {[name |-> mv.name, type |-> mv.type] : mv \in pokemon.moves}]

\* The combatants a lookup of this species can create
LookupDraws(species, levelArg) ==
  UNION {createBattlePokemon(species, level, moveCount) :
           level \in LevelChoices(levelArg), moveCount \in LookupMoveCounts}

\* case "get_random_pokemon": POKEMON_DB[Math.floor(Math.random() * length)]
\* is any entry of the catalog
get_random_pokemon(battle, args) ==
  {[battle |-> battle, result |-> Ok(LookupReport("Generated", pokemon))] :
     pokemon \in UNION {LookupDraws(POKEMON_DB[i], args.level) :
                          i \in DOMAIN POKEMON_DB}}

\* case "get_pokemon_by_name"
get_pokemon_by_name(battle, args) ==
  IF ~IsSome(args.name)
    THEN {[battle |-> battle, result |-> Error("InvalidArguments")]}
  ELSE IF ~IsSome(FindSpecies(Get(args.name)))
    THEN {[battle |-> battle, result |-> Error("NotFound")]}
  ELSE {[battle |-> battle, result |-> Ok(LookupReport("Found", pokemon))] :
          pokemon \in LookupDraws(Get(FindSpecies(Get(args.name))),
                                  args.level)}

\* case "list_all_pokemon": one line per entry of POKEMON_DB, in its order
list_all_pokemon(battle) ==
  {[battle |-> battle,
    result |-> Ok([header |-> "Available Pokemon:",
                   lines  |-> [i \in DOMAIN POKEMON_DB |->
                                 [name      |-> POKEMON_DB[i].name,
                                  types     |-> POKEMON_DB[i].types,
                                  baseStats |-> POKEMON_DB[i].baseStats]]])]}

\* The chart key spelled by this string, if any
TypeOf(s) ==
  LET hits == {t \in PokemonTypes : TypeChars[t] = s}
  IN  IF hits = {} THEN None ELSE Some(CHOOSE t \in hits : TRUE)

\* An object without enumerable entries of its own
NoEntries == [t \in {} |-> 0]

\* TYPE_EFFECTIVENESS[atk]: the chart's own entry, else what the object
\* inherits under that key (truthy, no enumerable entries), else undefined
ChartOf(atk) ==
  IF IsSome(TypeOf(atk)) THEN Some(TYPE_EFFECTIVENESS[Get(TypeOf(atk))])
  ELSE IF atk \in ObjectPrototypeKeys THEN Some(NoEntries)
  ELSE None

\* Stands for a value that is not a number (a function or an object that
\* the chart inherits): every comparison of it with a number is false
NotANumber == -1

\* chart?.[def] ?? 1, in halves: the chart's own entry, else what the chart
\* inherits under that name, else 1
MultiplierOf(chart, def) ==
  LET t == TypeOf(def)
  IN  IF IsSome(t) /\ Get(t) \in DOMAIN chart THEN chart[Get(t)]
      ELSE IF def \in ObjectPrototypeKeys THEN NotANumber
      ELSE 2

\* Mutant of TypeMessage: "below 1" is tested before "equal to 0"
TypeMessage_BelowOneFirst(mult) ==
  IF mult > 2 THEN "Super effective!"
  ELSE IF mult < 2 THEN "Not very effective..."
  ELSE IF mult = 0 THEN "No effect!"
  ELSE ""

\* msg, for a multiplier in halves
TypeMessage(mult) ==
  IF mult = NotANumber THEN ""
  ELSE IF mult > 2 THEN "Super effective!"
  ELSE IF mult = 0 THEN "No effect!"
  ELSE IF mult < 2 THEN "Not very effective..."
  ELSE ""

\* Mutant of NotVeryBucket: the lower bound m > 0 is missing
NotVeryBucket_WithZeros(chart) == {t \in DOMAIN chart : chart[t] < 2}

\* Object.entries(chart).filter(([, m]) => m > 1)
SuperBucket(chart) == {t \in DOMAIN chart : chart[t] > 2}

\* Object.entries(chart).filter(([, m]) => m < 1 && m > 0)
NotVeryBucket(chart) == {t \in DOMAIN chart : chart[t] < 2 /\ chart[t] > 0}

\* Object.entries(chart).filter(([, m]) => m === 0)
NoEffectBucket(chart) == {t \in DOMAIN chart : chart[t] = 0}

\* case "get_type_effectiveness"
get_type_effectiveness(battle, args) ==
  IF ~IsSome(args.attacking_type)
    THEN {[battle |-> battle, result |-> Error("InvalidArguments")]}
  ELSE
    LET atk == toLowerCase(Get(args.attacking_type))
    IN  IF ~IsSome(ChartOf(atk))
          THEN {[battle |-> battle, result |-> Error("UnknownType")]}
        ELSE IF IsSome(args.defending_type)
          THEN LET def  == toLowerCase(Get(args.defending_type))
                   mult == MultiplierOf(Get(ChartOf(atk)), def)
               IN  {[battle |-> battle,
                     result |-> Ok([atk |-> atk, def |-> Some(def),
                                    mult |-> mult,
                                    msg |-> TypeMessage(mult)])]}
        ELSE LET chart == Get(ChartOf(atk))
             IN  {[battle |-> battle,
                   result |-> Ok([atk    |-> atk, def |-> None,
                                  supers |-> SuperBucket(chart),
                                  nots   |-> NotVeryBucket(chart),
                                  zeros  |-> NoEffectBucket(chart)])]}

\* Mutant of FirstTurn: pokemon1 opens only when strictly faster
FirstTurn_Strict(battler1, battler2) ==
  IF battler1.stats.speed > battler2.stats.speed THEN "pokemon1" ELSE "pokemon2"

\* battler1.stats.speed >= battler2.stats.speed ? "pokemon1" : "pokemon2"
FirstTurn(battler1, battler2) ==
  IF battler1.stats.speed >= battler2.stats.speed THEN "pokemon1" ELSE "pokemon2"

\* battler1.stats.speed >= battler2.stats.speed ? battler1.name : battler2.name
FirstName(battler1, battler2) ==
  IF battler1.stats.speed >= battler2.stats.speed
    THEN battler1.name
    ELSE battler2.name

\* The object assigned to currentBattle
NewBattle(battler1, battler2) ==
  [active      |-> TRUE,
   pokemon1    |-> battler1,
   pokemon2    |-> battler2,
   turn        |-> 1,
   currentTurn |-> FirstTurn(battler1, battler2)]

\* The facts of the "Battle Started!" text
StartReport(battler1, battler2) ==
  [name1  |-> battler1.name, level1 |-> battler1.stats.level,
   hp1    |-> battler1.stats.currentHp, maxHp1 |-> battler1.stats.hp,
   moves1 |-> {m.name : m \in battler1.moves},
   name2  |-> battler2.name, level2 |-> battler2.stats.level,
   hp2    |-> battler2.stats.currentHp, maxHp2 |-> battler2.stats.hp,
   moves2 |-> {m.name : m \in battler2.moves},
   first  |-> FirstName(battler1, battler2)]

\* The error start_battle throws before it builds anything, "" if none
StartBattleError(args) ==
  IF ~IsSome(args.pokemon1_name) \/ ~IsSome(args.pokemon2_name)
    THEN "InvalidArguments"
  ELSE IF \/ ~IsSome(FindSpecies(Get(args.pokemon1_name)))
          \/ ~IsSome(FindSpecies(Get(args.pokemon2_name)))
    THEN "NotFound"
  ELSE ""

\* The two createBattlePokemon calls and the assignment to currentBattle
CreateBattle(args) ==
  LET base1 == Get(FindSpecies(Get(args.pokemon1_name)))
      base2 == Get(FindSpecies(Get(args.pokemon2_name)))
      battlers1 ==
        UNION {createBattlePokemon(base1, l, BattleMoveCount) :
                 l \in LevelChoices(args.pokemon1_level)}
      battlers2 ==
        UNION {createBattlePokemon(base2, l, BattleMoveCount) :
                 l \in LevelChoices(args.pokemon2_level)}
  IN  {[battle |-> Some(NewBattle(b1, b2)),
        result |-> Ok(StartReport(b1, b2))] :
         b1 \in battlers1, b2 \in battlers2}

\* Mutant of start_battle: the previous battle is discarded before the
\* arguments are validated
start_battle_DiscardsFirst(battle, args) ==
  LET err == StartBattleError(args)
  IN  IF err # ""
        THEN {[battle |-> None, result |-> Error(err)]}
        ELSE CreateBattle(args)

\* case "start_battle"
start_battle(battle, args) ==
  LET err == StartBattleError(args)
  IN  IF err # ""
        THEN {[battle |-> battle, result |-> Error(err)]}
        ELSE CreateBattle(args)

\* Mutant of IsActive: only null is checked, not the active flag
IsActive_NotNull(battle) == IsSome(battle)

\* currentBattle?.active
IsActive(battle) == IsSome(battle) /\ Get(battle).active

\* [pokemon1, pokemon2].find(p => p.name.toLowerCase() ===
\* attacker_name.toLowerCase()), as the slot of the object found
FindAttacker(b, attacker_name) ==
  IF toLowerCase(b.pokemon1.name) = toLowerCase(attacker_name)
    THEN Some("pokemon1")
    ELSE IF toLowerCase(b.pokemon2.name) = toLowerCase(attacker_name)
           THEN Some("pokemon2")
           ELSE None

\* attacker === currentBattle.pokemon1 ? pokemon2 : pokemon1
DefenderSlot(attackerSlot) ==
  IF attackerSlot = "pokemon1" THEN "pokemon2" ELSE "pokemon1"

\* Mutant of IsWrongTurn: the two combatants are compared by name, not by
\* identity
IsWrongTurn_ByName(b, attackerSlot) ==
  b[attackerSlot].name # b[b.currentTurn].name

\* attacker !== currentBattle[currentBattle.currentTurn]
IsWrongTurn(b, attackerSlot) == attackerSlot # b.currentTurn

\* Mutant of FindMove: the move is looked up in MOVES_DB, not among the
\* attacker's moves
FindMove_WholeCatalog(attacker, move_name) ==
  LET hits == {mv \in Range(MOVES_DB) :
                 toLowerCase(mv.name) = toLowerCase(move_name)}
  IN  IF hits = {} THEN None ELSE Some(CHOOSE mv \in hits : TRUE)

\* attacker.moves.find(m => m.name.toLowerCase() === move_name.toLowerCase())
FindMove(attacker, move_name) ==
  LET hits == {m \in attacker.moves :
                 toLowerCase(m.name) = toLowerCase(move_name)}
  IN  IF hits = {} THEN None ELSE Some(CHOOSE m \in hits : TRUE)

\* Mutant of IsMiss: the roll is taken to range over 1..100
IsMiss_RollFromOne(accuracyRoll, move) == accuracyRoll + 1 >= move.accuracy

\* Mutant of IsMiss: a roll equal to the accuracy still hits
IsMiss_Strict(accuracyRoll, move) == accuracyRoll > move.accuracy

\* accuracyRoll >= move.accuracy
IsMiss(accuracyRoll, move) == accuracyRoll >= move.accuracy

\* Mutant of AdvanceTurn: the turn pointer flips, the turn counter stays
AdvanceTurn_NoCount(b) ==
  [b EXCEPT !.currentTurn = IF @ = "pokemon1" THEN "pokemon2" ELSE "pokemon1"]

\* Mutant of AdvanceTurn: the turn counter advances, the turn pointer stays
AdvanceTurn_NoFlip(b) == [b EXCEPT !.turn = @ + 1]

\* currentBattle.turn++; currentBattle.currentTurn = the other slot
AdvanceTurn(b) ==
  [b EXCEPT !.turn = @ + 1,
            !.currentTurn = IF @ = "pokemon1" THEN "pokemon2" ELSE "pokemon1"]

\* Mutant of ApplyDamage: the damage is taken from the maximum health too
ApplyDamage_FromMaximumToo(b, defenderSlot, damage) ==
  [b EXCEPT ![defenderSlot].stats.currentHp = Max(0, @ - damage),
            ![defenderSlot].stats.hp = Max(0, @ - damage)]

\* Mutant of ApplyDamage: the health is not floored at 0
ApplyDamage_NoFloor(b, defenderSlot, damage) ==
  [b EXCEPT ![defenderSlot].stats.currentHp = @ - damage]

\* defender.stats.currentHp = Math.max(0, defender.stats.currentHp - damage)
ApplyDamage(b, defenderSlot, damage) ==
  [b EXCEPT ![defenderSlot].stats.currentHp = Max(0, @ - damage)]

\* The effectiveness the handler computes for its report (not capped)
ReportedEffectiveness(defender, move) ==
  TypeProduct(move.type, defender.types, Len(defender.types))

\* The annotation after "Type Effectiveness: <n>x"
EffectivenessNote(e) ==
  IF e.num > e.den THEN "Super effective!"
  ELSE IF e.num = 0 THEN "No effect!"
  ELSE IF e.num < e.den THEN "Not very effective..."
  ELSE ""

\* Mutant of FaintCheck: the turn advances on a faint too
FaintCheck_AdvancesOnFaint(b, defenderSlot) ==
  IF b[defenderSlot].stats.currentHp = 0
    THEN AdvanceTurn([b EXCEPT !.active = FALSE])
    ELSE AdvanceTurn(b)

\* Mutant of FaintCheck: the health of the attacker is tested
FaintCheck_ChecksAttacker(b, defenderSlot) ==
  IF b[DefenderSlot(defenderSlot)].stats.currentHp = 0
    THEN [b EXCEPT !.active = FALSE]
    ELSE AdvanceTurn(b)

\* if (defender.stats.currentHp === 0) active = false; else turn++, flip
FaintCheck(b, defenderSlot) ==
  IF b[defenderSlot].stats.currentHp = 0
    THEN [b EXCEPT !.active = FALSE]
    ELSE AdvanceTurn(b)

\* The facts of the text a miss returns; after is the battle once the turn
\* has advanced
MissReport(after, attacker, move) ==
  [turn |-> after.turn - 1, attacker |-> attacker.name, move |-> move.name,
   missed |-> TRUE]

\* The facts of the text a hit returns; after is the battle once the damage
\* is applied
HitReport(b, after, attackerSlot, move, damage) ==
  LET attacker == after[attackerSlot]
      defender == after[DefenderSlot(attackerSlot)]
      eff == ReportedEffectiveness(defender, move)
      fainted == defender.stats.currentHp = 0
  IN  [turn          |-> b.turn,
       attacker      |-> attacker.name,
       move          |-> move.name,
       missed        |-> FALSE,
       effectiveness |-> eff,
       note          |-> EffectivenessNote(eff),
       hasStab       |-> HasStab(attacker, move),
       damage        |-> damage,
       defender      |-> defender.name,
       hp1           |-> after.pokemon1.stats.currentHp,
       maxHp1        |-> after.pokemon1.stats.hp,
       hp2           |-> after.pokemon2.stats.currentHp,
       maxHp2        |-> after.pokemon2.stats.hp,
       fainted       |-> IF fainted THEN Some(defender.name) ELSE None,
       winner        |-> IF fainted THEN Some(attacker.name) ELSE None]

\* No Math.random() value was drawn
NoDraws == [accuracyRoll |-> None, damage |-> None]

\* Mutant of ResolveAttack: a further draw decides whether a hit deals its
\* damage twice
ResolveAttack_CriticalHits(b, attackerSlot, move) ==
  LET attacker == b[attackerSlot]
      defenderSlot == DefenderSlot(attackerSlot)
      Missed(accuracyRoll) ==
        [battle |-> Some(AdvanceTurn(b)),
         result |-> Ok(MissReport(AdvanceTurn(b), attacker, move)),
         draws  |-> [accuracyRoll |-> Some(accuracyRoll), damage |-> None]]
      Hit(accuracyRoll, k, times) ==
        LET damage ==
              times * calculateDamage(attacker, b[defenderSlot], move, k)
            after  == ApplyDamage(b, defenderSlot, damage)
        IN  [battle |-> Some(FaintCheck(after, defenderSlot)),
             result |-> Ok(HitReport(b, after, attackerSlot, move, damage)),
             draws  |-> [accuracyRoll |-> Some(accuracyRoll),
                         damage |-> Some(k)]]
  IN  UNION {IF IsMiss(accuracyRoll, move)
               THEN {Missed(accuracyRoll)}
               ELSE {Hit(accuracyRoll, k, times) :
                       k \in 0..(RandomSteps - 1), times \in {1, 2}}
             : accuracyRoll \in AccuracyRolls}

\* The attack once attacker and move are resolved: the accuracy check, then
\* the damage and the faint check
ResolveAttack(b, attackerSlot, move) ==
  LET attacker == b[attackerSlot]
      defenderSlot == DefenderSlot(attackerSlot)
      Missed(accuracyRoll) ==
        [battle |-> Some(AdvanceTurn(b)),
         result |-> Ok(MissReport(AdvanceTurn(b), attacker, move)),
         draws  |-> [accuracyRoll |-> Some(accuracyRoll), damage |-> None]]
      Hit(accuracyRoll, k) ==
        LET damage == calculateDamage(attacker, b[defenderSlot], move, k)
            after  == ApplyDamage(b, defenderSlot, damage)
        IN  [battle |-> Some(FaintCheck(after, defenderSlot)),
             result |-> Ok(HitReport(b, after, attackerSlot, move, damage)),
             draws  |-> [accuracyRoll |-> Some(accuracyRoll),
                         damage |-> Some(k)]]
  IN  UNION {IF IsMiss(accuracyRoll, move)
               THEN {Missed(accuracyRoll)}
               ELSE {Hit(accuracyRoll, k) : k \in 0..(RandomSteps - 1)}
             : accuracyRoll \in AccuracyRolls}

\* Mutant of AttackErrorActive: the move is looked up before the turn is
\* checked
AttackErrorActive_MoveFirst(b, args) ==
  IF ~IsSome(args.attacker_name) \/ ~IsSome(args.move_name)
    THEN "InvalidArguments"
  ELSE
    LET attacker == FindAttacker(b, Get(args.attacker_name))
    IN  IF ~IsSome(attacker) THEN "NotFound"
        ELSE IF ~IsSome(FindMove(b[Get(attacker)], Get(args.move_name)))
          THEN "UnknownMove"
        ELSE IF IsWrongTurn(b, Get(attacker)) THEN "WrongTurn"
        ELSE ""

\* The error attack throws once the battle is known to be active, "" if none
AttackErrorActive(b, args) ==
  IF ~IsSome(args.attacker_name) \/ ~IsSome(args.move_name)
    THEN "InvalidArguments"
  ELSE
    LET attacker == FindAttacker(b, Get(args.attacker_name))
    IN  IF ~IsSome(attacker) THEN "NotFound"
        ELSE IF IsWrongTurn(b, Get(attacker)) THEN "WrongTurn"
        ELSE IF ~IsSome(FindMove(b[Get(attacker)], Get(args.move_name)))
          THEN "UnknownMove"
        ELSE ""

\* Mutant of AttackError: the arguments are checked before the battle is
AttackError_ArgumentsFirst(battle, args) ==
  IF ~IsSome(args.attacker_name) \/ ~IsSome(args.move_name)
    THEN "InvalidArguments"
  ELSE IF ~IsActive(battle)
    THEN "NoActiveBattle"
  ELSE AttackErrorActive(Get(battle), args)

\* The error attack throws before it changes anything, "" if none
AttackError(battle, args) ==
  IF ~IsActive(battle)
    THEN "NoActiveBattle"
    ELSE AttackErrorActive(Get(battle), args)

\* case "attack"
attack(battle, args) ==
  LET err == AttackError(battle, args)
  IN  IF err # ""
        THEN {[battle |-> battle, result |-> Error(err), draws |-> NoDraws]}
        ELSE
          LET b == Get(battle)
              attackerSlot == Get(FindAttacker(b, Get(args.attacker_name)))
              move == Get(FindMove(b[attackerSlot], Get(args.move_name)))
          IN  ResolveAttack(b, attackerSlot, move)

\* The facts of the text get_battle_status returns
StatusReport(b) ==
  [header |-> IF b.active THEN "Battle Active" ELSE "Battle Over",
   turn   |-> b.turn,
   name1  |-> b.pokemon1.name,
   hp1    |-> b.pokemon1.stats.currentHp, maxHp1 |-> b.pokemon1.stats.hp,
   name2  |-> b.pokemon2.name,
   hp2    |-> b.pokemon2.stats.currentHp, maxHp2 |-> b.pokemon2.stats.hp]

\* Mutant of get_battle_status: a battle that has ended is not reported
get_battle_status_ActiveOnly(battle) ==
  IF ~IsActive(battle)
    THEN {[battle |-> battle, result |-> Ok([header |-> "No active battle."])]}
    ELSE {[battle |-> battle, result |-> Ok(StatusReport(Get(battle)))]}

\* case "get_battle_status"
get_battle_status(battle) ==
  IF ~IsSome(battle)
    THEN {[battle |-> battle, result |-> Ok([header |-> "No active battle."])]}
    ELSE {[battle |-> battle, result |-> Ok(StatusReport(Get(battle)))]}

---------------------------------------------------------------------------
(* The state machine: one action per tool call *)

\* "none", "active" or "ended"
Phase(battle) ==
  IF ~IsSome(battle) THEN "none"
  ELSE IF Get(battle).active THEN "active"
  ELSE "ended"

\* No call handled yet, no battle started yet
NoCallers == [call |-> None, battle |-> None]

\* The calls of one server instance leave the set of sessions alone
SameServers == UNCHANGED <<httpTransports, callers>>

Init ==
  /\ currentBattle = None
  /\ lastCall = None
  /\ lastResult = None
  /\ battleBefore = None
  /\ battleAtStart = None
  /\ attackers = <<>>
  /\ draws = NoDraws
  /\ httpTransports = {}
  /\ callers = NoCallers

\* The state after a call with this outcome
Return(tool, args, out) ==
  /\ currentBattle' = out.battle
  /\ lastCall' = Some([tool |-> tool, args |-> args])
  /\ lastResult' = Some(out.result)
  /\ battleBefore' = currentBattle
  /\ battleAtStart' = IF tool = "start_battle" /\ out.result.error = ""
                        THEN out.battle
                        ELSE battleAtStart

\* A call of start_battle with these arguments
StartBattleWith(args) ==
  \E out \in start_battle(currentBattle, args) :
    /\ Return("start_battle", args, out)
    /\ attackers' = IF out.result.error = "" THEN <<>> ELSE attackers
    /\ draws' = NoDraws

StartBattle ==
  /\ \E args \in StartBattleArgs : StartBattleWith(args)
  /\ SameServers

\* A call of attack with these arguments
AttackWith(args) ==
  \E out \in attack(currentBattle, args) :
    /\ Return("attack", args, out)
    /\ attackers' =
         IF out.result.error = ""
           THEN Append(attackers,
                       Get(FindAttacker(Get(currentBattle),
                                        Get(args.attacker_name))))
           ELSE attackers
    /\ draws' = out.draws

Attack ==
  /\ IsActive(currentBattle) => Get(currentBattle).turn < MaxTurn
  /\ \E a \in AttackerNameArgs, m \in MoveNameArgs :
       AttackWith([attacker_name |-> a, move_name |-> m])
  /\ SameServers

GetBattleStatus ==
  /\ \E out \in get_battle_status(currentBattle) :
       /\ Return("get_battle_status", [none |-> TRUE], out)
       /\ UNCHANGED attackers
       /\ draws' = NoDraws
  /\ SameServers

Next ==
  \/ StartBattle
  \/ Attack
  \/ GetBattleStatus

Spec == Init /\ [][Next]_vars

---------------------------------------------------------------------------
(* The first attack of every matchup: a battle of any two catalog species  *)
(* at the ends and the middle of the level range, then one attack by the   *)
(* combatant that opens, with each of its moves.                           *)

\* pokemon1_level, pokemon2_level of the matchups
MatchupLevels == {Some(1), Some(50), Some(100)}

MatchupStart ==
  /\ currentBattle = None
  /\ \E i \in DOMAIN POKEMON_DB, j \in DOMAIN POKEMON_DB,
        l1 \in MatchupLevels, l2 \in MatchupLevels :
       StartBattleWith([pokemon1_name  |-> Some(POKEMON_DB[i].name),
                        pokemon1_level |-> l1,
                        pokemon2_name  |-> Some(POKEMON_DB[j].name),
                        pokemon2_level |-> l2])
  /\ SameServers

MatchupAttack ==
  /\ IsActive(currentBattle)
  /\ Get(currentBattle).turn = 1
  /\ LET b == Get(currentBattle)
         attacker == b[b.currentTurn]
     IN  \E mv \in attacker.moves :
           AttackWith([attacker_name |-> Some(attacker.name),
                       move_name     |-> Some(mv.name)])
  /\ SameServers

MatchupNext ==
  \/ MatchupStart
  \/ MatchupAttack

MatchupSpec == Init /\ [][MatchupNext]_vars

---------------------------------------------------------------------------
(* The standalone lookups *)

\* level: absent (drawn at random) or given
LookupLevelArgs == {None, Some(50)}

\* name: every catalog species in lower case, a name the catalog lacks, and
\* an absent argument
LookupNameArgs ==
  {Some(toLowerCase(POKEMON_DB[i].name)) : i \in DOMAIN POKEMON_DB}
    \cup {Some(<<"M","i","s","s","i","n","g","N","o">>), None}

\* A call of a tool that does not touch the battle
Query(tool, args, out) ==
  /\ Return(tool, args, out)
  /\ UNCHANGED attackers
  /\ draws' = NoDraws

GetRandomPokemon ==
  /\ \E level \in LookupLevelArgs :
       LET args == [level |-> level]
       IN  \E out \in get_random_pokemon(currentBattle, args) :
             Query("get_random_pokemon", args, out)
  /\ SameServers

GetPokemonByName ==
  /\ \E name \in LookupNameArgs, level \in LookupLevelArgs :
       LET args == [name |-> name, level |-> level]
       IN  \E out \in get_pokemon_by_name(currentBattle, args) :
             Query("get_pokemon_by_name", args, out)
  /\ SameServers

LookupNext ==
  \/ GetRandomPokemon
  \/ GetPokemonByName

LookupSpec == Init /\ [][LookupNext]_vars

---------------------------------------------------------------------------
(* The type chart queries: every one of them is asked while there is no    *)
(* battle, and a sample of them during a battle and after it.              *)

\* attacking_type: every chart key, keys in other letter case, strings that
\* are no chart key (two of them names every object has), and an absent
\* argument
AttackingTypeArgs ==
  {Some(TypeChars[t]) : t \in PokemonTypes}
    \cup {Some(<<"F","I","R","E">>),
          Some(<<"W","a","t","e","r">>),
          Some(<<"b","a","n","a","n","a">>),
          Some(<<>>),
          Some(<<"c","o","n","s","t","r","u","c","t","o","r">>),
          Some(<<"t","o","S","t","r","i","n","g">>),
          None}

\* defending_type: absent, every chart key, a key in other letter case, and
\* strings that are no chart key (one of them a name every object has)
DefendingTypeArgs ==
  {Some(TypeChars[t]) : t \in PokemonTypes}
    \cup {Some(<<"G","R","A","S","S">>),
          Some(<<"b","a","n","a","n","a">>),
          Some(<<"c","o","n","s","t","r","u","c","t","o","r">>),
          None}

\* The queries asked once a battle exists
BattleTimeTypeArgs ==
  {[attacking_type |-> atk, defending_type |-> def] :
     atk \in {Some(TypeChars.fire), Some(<<"F","I","R","E">>),
              Some(TypeChars.normal), Some(<<"b","a","n","a","n","a">>)},
     def \in {Some(TypeChars.grass), Some(TypeChars.ghost),
              Some(TypeChars.rock), Some(TypeChars.fire), None}}

GetTypeEffectiveness ==
  /\ \E atk \in AttackingTypeArgs, def \in DefendingTypeArgs :
       LET args == [attacking_type |-> atk, defending_type |-> def]
       IN  /\ IsSome(currentBattle) => args \in BattleTimeTypeArgs
           /\ \E out \in get_type_effectiveness(currentBattle, args) :
                Query("get_type_effectiveness", args, out)
  /\ SameServers

\* The one battle of this specification: Dragonite at level 50 against
\* Pikachu at level 20
TypeStart ==
  /\ currentBattle = None
  /\ StartBattleWith(
       [pokemon1_name  |-> Some(<<"D","r","a","g","o","n","i","t","e">>),
        pokemon1_level |-> Some(50),
        pokemon2_name  |-> Some(<<"P","i","k","a","c","h","u">>),
        pokemon2_level |-> Some(20)])
  /\ SameServers

TypeAttack ==
  /\ IsActive(currentBattle)
  /\ Get(currentBattle).turn = 1
  /\ AttackWith(
       [attacker_name |-> Some(<<"D","r","a","g","o","n","i","t","e">>),
        move_name     |-> Some(<<"E","a","r","t","h","q","u","a","k","e">>)])
  /\ SameServers

TypeNext ==
  \/ TypeStart
  \/ TypeAttack
  \/ GetTypeEffectiveness

TypeSpec == Init /\ [][TypeNext]_vars

---------------------------------------------------------------------------
(* The battle together with the queries, each tool called with names in    *)
(* several letter cases; the queries are asked while there is no battle.   *)

\* name: every catalog species as the catalog spells it, and a name the
\* catalog lacks
CaseNameArgs ==
  {Some(POKEMON_DB[i].name) : i \in DOMAIN POKEMON_DB}
    \cup {Some(<<"M","i","s","s","i","n","g","N","o">>)}

CaseLookup ==
  /\ currentBattle = None
  /\ \E name \in CaseNameArgs :
       LET args == [name |-> name, level |-> Some(50)]
       IN  \E out \in get_pokemon_by_name(currentBattle, args) :
             Query("get_pokemon_by_name", args, out)
  /\ SameServers

CaseType ==
  /\ currentBattle = None
  /\ \E args \in BattleTimeTypeArgs :
       \E out \in get_type_effectiveness(currentBattle, args) :
         Query("get_type_effectiveness", args, out)
  /\ SameServers

CaseNext ==
  \/ StartBattle
  \/ Attack
  \/ CaseLookup
  \/ CaseType

CaseSpec == Init /\ [][CaseNext]_vars

---------------------------------------------------------------------------
(* The levels: start_battle with and without level arguments, and as the   *)
(* first call start_battle with levels at and beyond the ends of the       *)
(* declared range, a lookup with and without a level, or the expression    *)
(* that resolves the level on its own with every draw of LevelDraws.       *)

\* level, pokemon1_level, pokemon2_level: absent, or a number
LevelArgs == {None, Some(MinLevel), Some(50), Some(MaxLevel)}

\* typeof level === "number" ? level : Math.floor(Math.random() * 50) + 20
\* with the draw k/steps
ResolveLevel(levelArg, k, steps) ==
  IF IsSome(levelArg) THEN Get(levelArg) ELSE DefaultLevel(k, steps)

\* The expression on its own, before any call
ResolveLevelStep ==
  /\ lastCall = None
  /\ \E levelArg \in LevelArgs, k \in 0..(LevelDraws - 1) :
       Query("level", [level |-> levelArg, draw |-> k],
             [battle |-> currentBattle,
              result |-> Ok([level |-> ResolveLevel(levelArg, k,
                                                    LevelDraws)])])
  /\ SameServers

\* A lookup as the first call
LevelLookupRandom == lastCall = None /\ GetRandomPokemon

LevelLookupByName == lastCall = None /\ GetPokemonByName

\* pokemon1_level, pokemon2_level: the ends of the range the schema
\* declares, and the numbers next to them
StartLevelArgs ==
  {Some(MinLevel - 1), Some(MinLevel), Some(MaxLevel), Some(MaxLevel + 1)}

\* start_battle as the first call, with such levels
LevelStart ==
  /\ lastCall = None
  /\ \E l1 \in StartLevelArgs, l2 \in StartLevelArgs :
       StartBattleWith(
         [pokemon1_name  |-> Some(<<"P","i","k","a","c","h","u">>),
          pokemon1_level |-> l1,
          pokemon2_name  |-> Some(<<"D","r","a","g","o","n","i","t","e">>),
          pokemon2_level |-> l2])
  /\ SameServers

LevelNext ==
  \/ StartBattle
  \/ LevelStart
  \/ LevelLookupRandom
  \/ LevelLookupByName
  \/ ResolveLevelStep

LevelSpec == Init /\ [][LevelNext]_vars

---------------------------------------------------------------------------
(* The server instances of src/unnamed/part_000: the stdio server and one  *)
(* server per open HTTP session, every one of them registering the same    *)
(* handlers over the one module-level battle. A handler runs from its      *)
(* first statement to its return without an await, so a call is one step.  *)

\* The ids an HTTP session can get (randomUUID), two of them
SessionIds == {"http1", "http2"}

\* The server instances that take calls: the stdio server and the servers
\* of the open HTTP sessions
Servers == {"stdio"} \cup httpTransports

\* The battle the handlers of this server instance read and write
ServerBattle_PerInstance(server) ==
  IF callers.battle = Some(server) THEN currentBattle ELSE None

ServerBattle(server) == currentBattle

\* start_battle in the sessions: two species at a given level
SessionStartArgs ==
  {[pokemon1_name  |-> Some(<<"P","i","k","a","c","h","u">>),
    pokemon1_level |-> Some(50),
    pokemon2_name  |-> Some(<<"D","r","a","g","o","n","i","t","e">>),
    pokemon2_level |-> Some(50)],
   [pokemon1_name  |-> Some(<<"M","e","w","t","w","o">>),
    pokemon1_level |-> Some(50),
    pokemon2_name  |-> Some(<<"M","i","s","s","i","n","g","N","o">>),
    pokemon2_level |-> Some(50)]}

\* attack in the sessions: either combatant, a move of either pool
SessionAttackArgs ==
  {[attacker_name |-> Some(a), move_name |-> Some(m)] :
     a \in {<<"P","i","k","a","c","h","u">>,
            <<"D","r","a","g","o","n","i","t","e">>},
     m \in {<<"T","h","u","n","d","e","r","b","o","l","t">>,
            <<"E","a","r","t","h","q","u","a","k","e">>}}

\* An initialize request without a session id opens a session
OpenSession ==
  /\ \E id \in SessionIds \ httpTransports :
       httpTransports' = httpTransports \cup {id}
  /\ UNCHANGED <<currentBattle, lastCall, lastResult, battleBefore,
                 battleAtStart, attackers, draws, callers>>

\* A DELETE request with the id of an open session closes it
CloseSession ==
  /\ \E id \in httpTransports :
       httpTransports' = httpTransports \ {id}
  /\ UNCHANGED <<currentBattle, lastCall, lastResult, battleBefore,
                 battleAtStart, attackers, draws, callers>>

\* This server instance handled the call; a battle it started is its own
ServedBy(server, started) ==
  /\ callers' = [call   |-> Some(server),
                 battle |-> IF started THEN Some(server)
                            ELSE callers.battle]
  /\ UNCHANGED httpTransports

SessionStartBattle ==
  \E server \in Servers, args \in SessionStartArgs :
    \E out \in start_battle(ServerBattle(server), args) :
      /\ Return("start_battle", args, out)
      /\ attackers' = IF out.result.error = "" THEN <<>> ELSE attackers
      /\ draws' = NoDraws
      /\ ServedBy(server, out.result.error = "")

\* Mutant of SessionAttack: the handler gives way to other calls once it has
\* applied the damage, before it updates turn counter, turn pointer and
\* active flag
SessionAttack_GivesWayAfterDamage ==
  /\ IsActive(currentBattle) => Get(currentBattle).turn < MaxTurn
  /\ \E server \in Servers, args \in SessionAttackArgs :
       \E out \in attack(ServerBattle(server), args) :
         LET b == Get(currentBattle)
             soFar ==
               IF out.result.error = ""
                 THEN [out EXCEPT
                         !.battle = Some([Get(out.battle) EXCEPT
                                            !.turn = b.turn,
                                            !.currentTurn = b.currentTurn,
                                            !.active = b.active])]
                 ELSE out
         IN  /\ Return("attack", args, soFar)
             /\ attackers' =
                  IF out.result.error = ""
                    THEN Append(attackers,
                                Get(FindAttacker(b, Get(args.attacker_name))))
                    ELSE attackers
             /\ draws' = out.draws
             /\ ServedBy(server, FALSE)

SessionAttack ==
  /\ IsActive(currentBattle) => Get(currentBattle).turn < MaxTurn
  /\ \E server \in Servers, args \in SessionAttackArgs :
       \E out \in attack(ServerBattle(server), args) :
         /\ Return("attack", args, out)
         /\ attackers' =
              IF out.result.error = ""
                THEN Append(attackers,
                            Get(FindAttacker(Get(currentBattle),
                                             Get(args.attacker_name))))
                ELSE attackers
         /\ draws' = out.draws
         /\ ServedBy(server, FALSE)

SessionGetBattleStatus ==
  \E server \in Servers :
    \E out \in get_battle_status(ServerBattle(server)) :
      /\ Query("get_battle_status", [none |-> TRUE], out)
      /\ ServedBy(server, FALSE)

SessionNext ==
  \/ OpenSession
  \/ CloseSession
  \/ SessionStartBattle
  \/ SessionAttack
  \/ SessionGetBattleStatus

SessionSpec == Init /\ [][SessionNext]_vars

---------------------------------------------------------------------------
(* The routes of the HTTP transport (src/unnamed/part_000, main): a        *)
(* request is a method, the value of its Mcp-Session-Id header and whether *)
(* its body is an initialize request. An outcome is the map of sessions    *)
(* afterwards, the status this code answers with ("" when the request is   *)
(* handed to a transport, which answers it), the session it was routed to  *)
(* and the session it created.                                             *)

\* The ids an HTTP session can get when the routes are examined on their
\* own, three of them
RouteSessionIds == SessionIds \cup {"http3"}

\* The Mcp-Session-Id header: absent, empty, the ids a session can get, and
\* an id no session has
SessionHeaderArgs ==
  {None, Some(""), Some("unknown")} \cup {Some(id) : id \in RouteSessionIds}

\* sessionId is truthy: the header is there and is not the empty string
HasSessionId(header) == IsSome(header) /\ Get(header) # ""

\* res.status(400).json({ error: "Invalid or missing session ID" })
BadRequest(transports) ==
  [transports |-> transports, status |-> "400", routedTo |-> None,
   created |-> None]

\* httpTransports.get(sessionId)!.handleRequest(req, res, ...)
RoutedTo(transports, id) ==
  [transports |-> transports, status |-> "", routedTo |-> Some(id),
   created |-> None]

\* Mutant of post: an initialize request creates a session whatever its
\* session id
post_InitializeAlwaysCreates(transports, header, isInitialize) ==
  IF HasSessionId(header) /\ Get(header) \in transports
    THEN {RoutedTo(transports, Get(header))}
  ELSE IF isInitialize
    THEN {[transports |-> transports \cup {id}, status |-> "",
           routedTo |-> None, created |-> Some(id)] :
            id \in RouteSessionIds \ transports}
  ELSE {BadRequest(transports)}

\* app.post("/mcp"): the new transport registers itself under the id that
\* randomUUID gives it, an id no session has
post(transports, header, isInitialize) ==
  IF HasSessionId(header) /\ Get(header) \in transports
    THEN {RoutedTo(transports, Get(header))}
  ELSE IF ~HasSessionId(header) /\ isInitialize
    THEN {[transports |-> transports \cup {id}, status |-> "",
           routedTo |-> None, created |-> Some(id)] :
            id \in RouteSessionIds \ transports}
  ELSE {BadRequest(transports)}

\* handleSessionRequest, for GET and DELETE; the transport that handles a
\* DELETE closes its session (onsessionclosed)
handleSessionRequest(transports, method, header) ==
  IF ~HasSessionId(header) \/ Get(header) \notin transports
    THEN {BadRequest(transports)}
  ELSE IF method = "DELETE"
    THEN {[RoutedTo(transports, Get(header)) EXCEPT
             !.transports = transports \ {Get(header)}]}
  ELSE {RoutedTo(transports, Get(header))}

\* The state after a request with this outcome; the sessions the request
\* found are kept with the answer
Respond(method, header, isInitialize, out) ==
  /\ httpTransports' = out.transports
  /\ lastCall' = Some([tool |-> method,
                       args |-> [sessionId |-> header,
                                 isInitialize |-> isInitialize]])
  /\ lastResult' = Some([error  |-> out.status,
                         report |-> Some([routedTo |-> out.routedTo,
                                          created  |-> out.created,
                                          sessions |-> httpTransports])])
  /\ UNCHANGED <<currentBattle, battleBefore, battleAtStart, attackers,
                 draws, callers>>

PostMcp ==
  \E header \in SessionHeaderArgs, isInitialize \in BOOLEAN :
    \E out \in post(httpTransports, header, isInitialize) :
      Respond("POST", header, isInitialize, out)

GetMcp ==
  \E header \in SessionHeaderArgs :
    \E out \in handleSessionRequest(httpTransports, "GET", header) :
      Respond("GET", header, FALSE, out)

DeleteMcp ==
  \E header \in SessionHeaderArgs :
    \E out \in handleSessionRequest(httpTransports, "DELETE", header) :
      Respond("DELETE", header, FALSE, out)

HttpNext ==
  \/ PostMcp
  \/ GetMcp
  \/ DeleteMcp

HttpSpec == Init /\ [][HttpNext]_vars

---------------------------------------------------------------------------
(* The queries around a battle: Dragonite at level 50 against Pikachu at   *)
(* level 20, and after every call of the battle (and before the first)     *)
(* each of the five tools that only read.                                  *)

\* No call yet, or the last call was start_battle or attack
AfterBattleCall ==
  IF lastCall = None THEN TRUE
  ELSE Get(lastCall).tool \in {"start_battle", "attack"}

QueryStart ==
  /\ currentBattle = None
  /\ StartBattleWith(
       [pokemon1_name  |-> Some(<<"D","r","a","g","o","n","i","t","e">>),
        pokemon1_level |-> Some(50),
        pokemon2_name  |-> Some(<<"P","i","k","a","c","h","u">>),
        pokemon2_level |-> Some(20)])
  /\ SameServers

QueryAttack ==
  /\ IsActive(currentBattle)
  /\ Get(currentBattle).turn < MaxTurn
  /\ \E args \in SessionAttackArgs : AttackWith(args)
  /\ SameServers

QueryStatus == AfterBattleCall /\ GetBattleStatus

QueryList ==
  /\ AfterBattleCall
  /\ \E out \in list_all_pokemon(currentBattle) :
       Query("list_all_pokemon", [none |-> TRUE], out)
  /\ SameServers

\* get_pokemon_by_name: a catalog species, a name the catalog lacks, and an
\* absent name
QueryByName ==
  /\ AfterBattleCall
  /\ \E name \in {Some(<<"G","e","n","g","a","r">>),
                   Some(<<"M","i","s","s","i","n","g","N","o">>), None} :
       LET args == [name |-> name, level |-> Some(50)]
       IN  \E out \in get_pokemon_by_name(currentBattle, args) :
             Query("get_pokemon_by_name", args, out)
  /\ SameServers

QueryRandom ==
  /\ AfterBattleCall
  /\ LET args == [level |-> Some(50)]
     IN  \E out \in get_random_pokemon(currentBattle, args) :
           Query("get_random_pokemon", args, out)
  /\ SameServers

QueryType ==
  /\ AfterBattleCall
  /\ \E args \in BattleTimeTypeArgs :
       \E out \in get_type_effectiveness(currentBattle, args) :
         Query("get_type_effectiveness", args, out)
  /\ SameServers

QueryNext ==
  \/ QueryStart
  \/ QueryAttack
  \/ QueryStatus
  \/ QueryList
  \/ QueryByName
  \/ QueryRandom
  \/ QueryType

QuerySpec == Init /\ [][QueryNext]_vars

---------------------------------------------------------------------------
(* calcStat on its own: one call for every base value, level and kind of   *)
(* attribute.                                                              *)

StatInit ==
  /\ currentBattle = None
  /\ lastCall \in {Some([tool |-> "calcStat",
                          args |-> [base |-> base, level |-> level,
                                    isHP |-> isHP]]) :
                      base \in 1..MaxBase, level \in MinLevel..MaxLevel,
                      isHP \in BOOLEAN}
  /\ lastResult = None
  /\ battleBefore = None
  /\ battleAtStart = None
  /\ attackers = <<>>
  /\ draws = NoDraws
  /\ httpTransports = {}
  /\ callers = NoCallers

CalcStat ==
  /\ lastResult = None
  /\ LET args == Get(lastCall).args
     IN  lastResult' =
           Some(Ok([value |-> calcStat(args.base, args.level, args.isHP)]))
  /\ UNCHANGED <<currentBattle, lastCall, battleBefore, battleAtStart,
                 attackers, draws>>
  /\ SameServers

StatSpec == StatInit /\ [][CalcStat]_vars

---------------------------------------------------------------------------
(* Vocabulary of the properties *)

Slots == {"pokemon1", "pokemon2"}

\* The call handled last was a call of this tool
CallIs(call, tool) == IsSome(call) /\ Get(call).tool = tool

\* The call handled last was accepted (it threw nothing)
Accepted(result) == IsSome(result) /\ Get(result).error = ""

\* The call handled last threw this error
Failed(result, kind) == IsSome(result) /\ Get(result).error = kind

\* No catalog species has this name, letter case apart
NotInCatalog(name) ==
  \A i \in DOMAIN POKEMON_DB :
    toLowerCase(POKEMON_DB[i].name) # toLowerCase(name)

\* The combatant has no assigned move of this name, letter case apart
NotAssigned(pokemon, move_name) ==
  \A mv \in pokemon.moves : toLowerCase(mv.name) # toLowerCase(move_name)

\* An attack call that gives both of its arguments
NamedAttack(call) ==
  /\ CallIs(call, "attack")
  /\ IsSome(Get(call).args.attacker_name)
  /\ IsSome(Get(call).args.move_name)

AttackerArg(call) == Get(Get(call).args.attacker_name)

MoveArg(call) == Get(Get(call).args.move_name)

---------------------------------------------------------------------------
(* Properties of the turn order *)

(* C1: in an active battle, an attack call whose attacker_name resolves to *)
(* the combatant the turn pointer does not designate fails with the        *)
(* wrong-turn error, whatever move it names, and leaves the battle (both   *)
(* combatants' health, turn counter, turn pointer, active flag) unchanged. *)
C1_OutOfTurnRejected ==
  ( /\ IsActive(battleBefore)
    /\ NamedAttack(lastCall)
    /\ LET b == Get(battleBefore)
           slot == FindAttacker(b, AttackerArg(lastCall))
       IN  IsSome(slot) /\ Get(slot) # b.currentTurn )
  => ( /\ Failed(lastResult, "WrongTurn")
       /\ currentBattle = battleBefore )

\* An out-of-turn attack was rejected after the battle had advanced, with a
\* move the out-of-turn combatant does have
C1_Witness ==
  /\ IsActive(currentBattle)
  /\ Get(currentBattle).turn > 1
  /\ NamedAttack(lastCall)
  /\ Failed(lastResult, "WrongTurn")
  /\ LET b == Get(currentBattle)
         slot == FindAttacker(b, AttackerArg(lastCall))
     IN  /\ IsSome(slot)
         /\ Get(slot) # b.currentTurn
         /\ ~NotAssigned(b[Get(slot)], MoveArg(lastCall))

(* C2: every accepted attack (hit or miss) that does not end the battle    *)
(* flips the turn pointer and adds exactly 1 to the turn counter; and      *)
(* within one battle no combatant makes two accepted attacks in a row.     *)
C2_TurnsAlternate ==
  /\ (CallIs(lastCall, "attack") /\ Accepted(lastResult)
       /\ IsActive(currentBattle))
      => /\ Get(currentBattle).currentTurn # Get(battleBefore).currentTurn
         /\ Get(currentBattle).turn = Get(battleBefore).turn + 1
  /\ \A i \in 1..(Len(attackers) - 1) : attackers[i] # attackers[i + 1]

\* A second accepted attack of a battle, a miss, after which the battle goes on
C2_Witness ==
  /\ IsActive(currentBattle)
  /\ Get(currentBattle).turn = 3
  /\ CallIs(lastCall, "attack")
  /\ Accepted(lastResult)
  /\ Get(Get(lastResult).report).missed
  /\ Len(attackers) = 2
  /\ attackers[2] = DefenderSlot(Get(currentBattle).currentTurn)

---------------------------------------------------------------------------
(* Properties of health and of the end of a battle *)

(* C3: for a battle started with levels in 1..100, both combatants satisfy *)
(* 0 <= currentHp <= hp after every call.                                  *)
C3_HealthBounds ==
  IsSome(currentBattle) =>
    LET b == Get(currentBattle)
    IN  (\A s \in Slots : b[s].stats.level \in 1..100)
        => \A s \in Slots :
             /\ 0 <= b[s].stats.currentHp
             /\ b[s].stats.currentHp <= b[s].stats.hp

\* A hit whose damage exceeded the defender's whole health left it at 0
C3_Witness ==
  /\ CallIs(lastCall, "attack")
  /\ Accepted(lastResult)
  /\ LET r == Get(Get(lastResult).report)
     IN  /\ ~r.missed
         /\ r.damage > r.maxHp1
         /\ r.damage > r.maxHp2
         /\ r.hp1 = 0 \/ r.hp2 = 0

(* C4: when a hit brings the defender's current health to 0, the battle    *)
(* becomes inactive, the attacker of that call is the reported winner, and *)
(* that call advances neither the turn pointer nor the turn counter.       *)
C4_FaintEndsBattle ==
  ( /\ NamedAttack(lastCall)
    /\ Accepted(lastResult)
    /\ ~Get(Get(lastResult).report).missed
    /\ LET slot == Get(FindAttacker(Get(battleBefore),
                                    AttackerArg(lastCall)))
       IN  Get(currentBattle)[DefenderSlot(slot)].stats.currentHp = 0 )
  => LET b == Get(battleBefore)
         slot == Get(FindAttacker(b, AttackerArg(lastCall)))
     IN  /\ ~Get(currentBattle).active
         /\ Get(Get(lastResult).report).winner = Some(b[slot].name)
         /\ Get(currentBattle).turn = b.turn
         /\ Get(currentBattle).currentTurn = b.currentTurn

\* A battle ended by a hit in its second turn or later
C4_Witness ==
  /\ Phase(currentBattle) = "ended"
  /\ Get(currentBattle).turn > 1
  /\ CallIs(lastCall, "attack")
  /\ Accepted(lastResult)
  /\ IsSome(Get(Get(lastResult).report).winner)
  /\ \E s \in Slots : Get(currentBattle)[s].stats.currentHp = 0

(* C5: once a battle has ended, every attack call, whatever attacker and   *)
(* move it names (the out-of-turn combatant included), fails with the      *)
(* no-active-battle error, not the wrong-turn error, and the ended battle  *)
(* stays as it is until the next successful start_battle.                  *)
C5_EndedBattleRejectsAttacks ==
  Phase(battleBefore) = "ended"
  => ( /\ CallIs(lastCall, "attack")
            => Failed(lastResult, "NoActiveBattle")
       /\ ~(CallIs(lastCall, "start_battle") /\ Accepted(lastResult))
            => currentBattle = battleBefore )

\* The fainted, out-of-turn combatant attacked an ended battle and got the
\* no-active-battle error
C5_Witness ==
  /\ Phase(currentBattle) = "ended"
  /\ Phase(battleBefore) = "ended"
  /\ NamedAttack(lastCall)
  /\ Failed(lastResult, "NoActiveBattle")
  /\ LET b == Get(currentBattle)
         slot == FindAttacker(b, AttackerArg(lastCall))
     IN  /\ IsSome(slot)
         /\ Get(slot) # b.currentTurn
         /\ b[Get(slot)].stats.currentHp = 0

(* C6: before any start_battle call has succeeded (the battle is null, and *)
(* only a successful start_battle ends that), every attack call fails with *)
(* the no-active-battle error, get_battle_status returns the no-battle     *)
(* response, and neither call creates a battle.                            *)
C6_NoBattleBeforeStart ==
  /\ battleBefore = None
    => /\ CallIs(lastCall, "attack")
            => Failed(lastResult, "NoActiveBattle")
       /\ CallIs(lastCall, "get_battle_status")
            => /\ Accepted(lastResult)
               /\ Get(Get(lastResult).report).header = "No active battle."
       /\ currentBattle # None
            => CallIs(lastCall, "start_battle") /\ Accepted(lastResult)
  /\ battleBefore # None => currentBattle # None

\* An attack that gives no move name, made before any battle
C6_Witness ==
  /\ currentBattle = None
  /\ CallIs(lastCall, "attack")
  /\ ~IsSome(Get(lastCall).args.move_name)
  /\ Failed(lastResult, "NoActiveBattle")

---------------------------------------------------------------------------
(* Properties of start_battle *)

(* C7: after start_battle the turn pointer designates the combatant with   *)
(* the strictly higher scaled speed, and pokemon1 when the speeds are      *)
(* equal; the combatant the report names as going first is the one the     *)
(* turn pointer designates.                                                *)
C7_FasterGoesFirst ==
  (CallIs(lastCall, "start_battle") /\ Accepted(lastResult))
  => LET b == Get(currentBattle)
         speed1 == b.pokemon1.stats.speed
         speed2 == b.pokemon2.stats.speed
     IN  /\ speed1 = calcStat(b.pokemon1.baseStats.speed,
                              b.pokemon1.stats.level, FALSE)
         /\ speed2 = calcStat(b.pokemon2.baseStats.speed,
                              b.pokemon2.stats.level, FALSE)
         /\ speed1 > speed2 => b.currentTurn = "pokemon1"
         /\ speed2 > speed1 => b.currentTurn = "pokemon2"
         /\ speed1 = speed2 => b.currentTurn = "pokemon1"
         /\ Get(Get(lastResult).report).first = b[b.currentTurn].name

\* A battle started with equal scaled speeds, which pokemon1 opens
C7_Witness ==
  /\ CallIs(lastCall, "start_battle")
  /\ Accepted(lastResult)
  /\ LET b == Get(currentBattle)
     IN  /\ b.pokemon1.stats.speed = b.pokemon2.stats.speed
         /\ b.currentTurn = "pokemon1"

(* C8: a start_battle call whose two species names both resolve succeeds   *)
(* from every state (no battle, active battle, ended battle) and replaces  *)
(* the battle by a fresh one: active, turn counter 1, both combatants at   *)
(* full health, made of the named species at the given levels; nothing of  *)
(* the previous battle remains.                                            *)
C8_StartReplacesBattle ==
  ( /\ CallIs(lastCall, "start_battle")
    /\ IsSome(Get(lastCall).args.pokemon1_name)
    /\ IsSome(Get(lastCall).args.pokemon2_name)
    /\ ~NotInCatalog(Get(Get(lastCall).args.pokemon1_name))
    /\ ~NotInCatalog(Get(Get(lastCall).args.pokemon2_name)) )
  => /\ Accepted(lastResult)
     /\ IsSome(currentBattle)
     /\ LET b == Get(currentBattle)
            args == Get(lastCall).args
            Fresh(p, name, level) ==
              /\ toLowerCase(p.name) = toLowerCase(Get(name))
              /\ \E i \in DOMAIN POKEMON_DB :
                   /\ POKEMON_DB[i].name = p.name
                   /\ POKEMON_DB[i].types = p.types
                   /\ POKEMON_DB[i].baseStats = p.baseStats
              /\ IsSome(level) => p.stats.level = Get(level)
              /\ p.stats.hp = calcStat(p.baseStats.hp, p.stats.level, TRUE)
              /\ p.stats.currentHp = p.stats.hp
        IN  /\ b.active
            /\ b.turn = 1
            /\ Fresh(b.pokemon1, args.pokemon1_name, args.pokemon1_level)
            /\ Fresh(b.pokemon2, args.pokemon2_name, args.pokemon2_level)

\* A battle started over an ended one
C8_Witness ==
  /\ Phase(battleBefore) = "ended"
  /\ CallIs(lastCall, "start_battle")
  /\ Accepted(lastResult)
  /\ IsActive(currentBattle)
  /\ Get(currentBattle).turn = 1

(* C9: a start_battle call in which either species name is not in the      *)
(* catalog fails with the not-found error and leaves the battle, or the    *)
(* absence of one, unchanged.                                              *)
C9_UnknownSpeciesRejected ==
  ( /\ CallIs(lastCall, "start_battle")
    /\ IsSome(Get(lastCall).args.pokemon1_name)
    /\ IsSome(Get(lastCall).args.pokemon2_name)
    /\ \/ NotInCatalog(Get(Get(lastCall).args.pokemon1_name))
       \/ NotInCatalog(Get(Get(lastCall).args.pokemon2_name)) )
  => ( /\ Failed(lastResult, "NotFound")
       /\ currentBattle = battleBefore )

\* A start_battle with an unknown second species, rejected while a battle
\* that had advanced was active
C9_Witness ==
  /\ Phase(battleBefore) = "active"
  /\ IsActive(currentBattle)
  /\ Get(currentBattle).turn > 1
  /\ CallIs(lastCall, "start_battle")
  /\ Failed(lastResult, "NotFound")
  /\ ~NotInCatalog(Get(Get(lastCall).args.pokemon1_name))

---------------------------------------------------------------------------
(* Properties of the move lookup *)

(* C10: in an active battle, an attack call by the combatant whose turn it *)
(* is, naming a move that is not among that combatant's assigned moves,    *)
(* fails with the unknown-move error and leaves the battle unchanged; it   *)
(* is still that combatant's turn.                                         *)
C10_UnknownMoveRejected ==
  ( /\ IsActive(battleBefore)
    /\ NamedAttack(lastCall)
    /\ LET b == Get(battleBefore)
           slot == FindAttacker(b, AttackerArg(lastCall))
       IN  /\ slot = Some(b.currentTurn)
           /\ NotAssigned(b[b.currentTurn], MoveArg(lastCall)) )
  => ( /\ Failed(lastResult, "UnknownMove")
       /\ currentBattle = battleBefore
       /\ Get(currentBattle).currentTurn = Get(battleBefore).currentTurn )

\* The combatant whose turn it is named a catalog move it was not assigned
C10_Witness ==
  /\ IsActive(currentBattle)
  /\ NamedAttack(lastCall)
  /\ Failed(lastResult, "UnknownMove")
  /\ \E i \in DOMAIN MOVES_DB :
       toLowerCase(MOVES_DB[i].name) = toLowerCase(MoveArg(lastCall))

---------------------------------------------------------------------------
(* Properties of the accuracy check and of the damage *)

\* The move an accepted attack used: the attacker's assigned move of the
\* name the call gave
MoveUsed ==
  LET b == Get(battleBefore)
  IN  CHOOSE mv \in b[b.currentTurn].moves :
        toLowerCase(mv.name) = toLowerCase(MoveArg(lastCall))

(* C11: when the accuracy roll is greater than or equal to the accuracy of *)
(* the move, the attack call succeeds as a miss: the health of both        *)
(* combatants is unchanged, the battle stays active, the turn counter      *)
(* increases by 1 and the turn pointer flips to the other combatant.       *)
C11_MissAdvancesTurn ==
  ( /\ NamedAttack(lastCall)
    /\ Accepted(lastResult)
    /\ Get(draws.accuracyRoll) >= MoveUsed.accuracy )
  => LET before == Get(battleBefore)
         after  == Get(currentBattle)
     IN  /\ Get(lastResult).report
              = Some(MissReport(after, before[before.currentTurn], MoveUsed))
         /\ \A s \in Slots :
              after[s].stats.currentHp = before[s].stats.currentHp
         /\ after.active
         /\ after.turn = before.turn + 1
         /\ after.currentTurn = DefenderSlot(before.currentTurn)

\* A miss by a roll equal to the accuracy of the move, after a hit had
\* damaged a combatant
C11_Witness ==
  /\ NamedAttack(lastCall)
  /\ Accepted(lastResult)
  /\ Get(Get(lastResult).report).missed
  /\ Get(draws.accuracyRoll) = MoveUsed.accuracy
  /\ \E s \in Slots :
       Get(currentBattle)[s].stats.currentHp < Get(currentBattle)[s].stats.hp

\* The last call was an attack that hit
IsHit ==
  /\ NamedAttack(lastCall)
  /\ Accepted(lastResult)
  /\ ~Get(Get(lastResult).report).missed

\* The combatants of the last accepted attack, as the call found them
AttackerBefore == Get(battleBefore)[Get(battleBefore).currentTurn]

DefenderBefore ==
  Get(battleBefore)[DefenderSlot(Get(battleBefore).currentTurn)]

\* The chart stores 0 for the move's type against this type
Immune(moveType, defType) ==
  /\ defType \in DOMAIN TYPE_EFFECTIVENESS[moveType]
  /\ TYPE_EFFECTIVENESS[moveType][defType] = 0

(* C12: for every hit whose effectiveness multiplier (the product over the *)
(* defender's types) is 0, the attack reports "no effect" and deals        *)
(* exactly 0 damage, whatever the attacker's level, stats, same-type bonus *)
(* and random factor; the defender's health is unchanged.                  *)
C12_NoEffectNoDamage ==
  ( /\ IsHit
    /\ \E i \in DOMAIN DefenderBefore.types :
         Immune(MoveUsed.type, DefenderBefore.types[i]) )
  => LET report == Get(Get(lastResult).report)
         slot == DefenderSlot(Get(battleBefore).currentTurn)
     IN  /\ report.note = "No effect!"
         /\ report.effectiveness.num = 0
         /\ report.damage = 0
         /\ Get(currentBattle)[slot].stats.currentHp
              = DefenderBefore.stats.currentHp

\* A hit with the same-type bonus and the highest random factor by a level
\* 100 attacker on a level 1 defender whose second type is immune
C12_Witness ==
  /\ IsHit
  /\ Len(DefenderBefore.types) = 2
  /\ Immune(MoveUsed.type, DefenderBefore.types[2])
  /\ ~Immune(MoveUsed.type, DefenderBefore.types[1])
  /\ HasStab(AttackerBefore, MoveUsed)
  /\ AttackerBefore.stats.level = 100
  /\ DefenderBefore.stats.level = 1
  /\ draws.damage = Some(RandomSteps - 1)
  /\ Get(Get(lastResult).report).damage = 0

(* C13: for every hit, for every move type and every combination of one   *)
(* or two defender types, the effectiveness multiplier the attack call     *)
(* reports is the effectiveness multiplier that was applied when that      *)
(* attack's damage was computed.                                           *)
C13_ReportedIsApplied ==
  IsHit
  => LET reported == Get(Get(lastResult).report).effectiveness
         applied  == DamageEffectiveness(DefenderBefore, MoveUsed)
     IN  reported.num * applied.den = applied.num * reported.den

(* C14: for every attacker, defender and move, the damage of a hit equals  *)
(* floor(((2*L+10)/250 * Atk/Def * Power + 2) * STAB * TypeEffectiveness   *)
(* * Random), with L the attacker's level, Atk its attack, Def the         *)
(* defender's defense, STAB 1.5 when the move's type is one of the         *)
(* attacker's types and 1 otherwise, TypeEffectiveness the product of the  *)
(* chart lookups over the defender's types and Random the factor drawn in  *)
(* [0.85, 1.0].                                                            *)
C14_DamageFormula ==
  IsHit
  => LET L     == AttackerBefore.stats.level
         Atk   == AttackerBefore.stats.attack
         Def   == DefenderBefore.stats.defense
         Power == MoveUsed.power
         stab2 == IF MoveUsed.type \in Range(AttackerBefore.types)
                    THEN 3 ELSE 2
         eff   == TypeProduct(MoveUsed.type, DefenderBefore.types,
                              Len(DefenderBefore.types))
         rnd   == RandomFactor(Get(draws.damage))
     IN  Get(Get(lastResult).report).damage
           = MulDivFloor(((2 * L + 10) * Atk * Power + 2 * 250 * Def)
                           * stab2 * eff.num,
                         rnd.num, 250 * Def * 2 * eff.den, rnd.den)

---------------------------------------------------------------------------
(* Properties of the stat scaling and of the move assignment *)

(* C15: for every base value >= 1 and every level in 1..100, calcStat      *)
(* returns floor(2*base*level/100 + 5) for a non-health attribute and      *)
(* floor(2*base*level/100 + level + 10) for health, and the result is a    *)
(* positive integer, so that a defense used as divisor is never 0.  The    *)
(* floor is stated by its bounds: v <= x < v + 1, scaled by 100.           *)
C15_StatScaling ==
  (CallIs(lastCall, "calcStat") /\ Accepted(lastResult))
  => LET args == Get(lastCall).args
         v == Get(Get(lastResult).report).value
         offset == IF args.isHP THEN args.level + 10 ELSE 5
         x100 == 2 * args.base * args.level + 100 * offset
     IN  /\ v \in Nat
         /\ 100 * v <= x100
         /\ x100 < 100 * (v + 1)
         /\ v >= 1

\* The health of base 45 at level 50 is 105
C15_Witness ==
  /\ CallIs(lastCall, "calcStat")
  /\ Get(lastCall).args = [base |-> 45, level |-> 50, isHP |-> TRUE]
  /\ Accepted(lastResult)
  /\ Get(Get(lastResult).report).value = 105

(* C16: for every species in the catalog, each combatant created by       *)
(* start_battle is assigned exactly 4 moves, pairwise distinct by name,    *)
(* every one of them named in that species' own move pool; a move outside  *)
(* the species' pool is never assigned.                                    *)
C16_FourMovesFromPool ==
  (CallIs(lastCall, "start_battle") /\ Accepted(lastResult))
  => \A s \in Slots :
       LET p == Get(currentBattle)[s]
           pool == Get(FindSpecies(p.name)).movePool
       IN  /\ Cardinality(p.moves) = 4
           /\ Cardinality({mv.name : mv \in p.moves}) = 4
           /\ \A mv \in p.moves :
                /\ mv \in Range(MOVES_DB)
                /\ \E i \in DOMAIN pool : pool[i] = mv.name

\* A battle of two species whose pools share a move and differ in another
C16_Witness ==
  /\ CallIs(lastCall, "start_battle")
  /\ Accepted(lastResult)
  /\ LET b == Get(currentBattle)
     IN  /\ b.pokemon1.name # b.pokemon2.name
         /\ b.pokemon1.moves \cap b.pokemon2.moves # {}
         /\ b.pokemon1.moves \ b.pokemon2.moves # {}
         /\ Cardinality(b.pokemon1.moves) = 4
         /\ Cardinality(b.pokemon2.moves) = 4

\* The last call was a standalone lookup that returned a combatant
IsLookup ==
  /\ CallIs(lastCall, "get_random_pokemon")
       \/ CallIs(lastCall, "get_pokemon_by_name")
  /\ Accepted(lastResult)

(* C17 as claimed: a combatant returned by a standalone lookup             *)
(* (get_pokemon_by_name, get_random_pokemon) is always assigned fewer      *)
(* moves than the 4 assigned to a combatant in a battle.                   *)
C17_LookupFewerMoves ==
  IsLookup
  => Cardinality(Get(Get(lastResult).report).moves) < BattleMoveCount

(* C17 as amended: a combatant returned by a standalone lookup is assigned *)
(* 2, 3 or 4 moves of its species' pool: never more than the 4 assigned to *)
(* a combatant in a battle, and as many as that when the draw gives 4.     *)
C17_LookupMoveCount ==
  IsLookup
  => LET report == Get(Get(lastResult).report)
         pool == Get(FindSpecies(report.name)).movePool
     IN  /\ Cardinality(report.moves) \in 2..BattleMoveCount
         /\ \A mv \in report.moves : mv.name \in Range(pool)

\* A lookup by name that returned as many moves as a battle assigns
C17_Witness ==
  /\ CallIs(lastCall, "get_pokemon_by_name")
  /\ Accepted(lastResult)
  /\ Cardinality(Get(Get(lastResult).report).moves) = 4

---------------------------------------------------------------------------
(* Properties of get_type_effectiveness *)

\* The chart keys a string names, letter case apart (one key or none)
KeysNamed(arg) == {t \in PokemonTypes : TypeChars[t] = toLowerCase(arg)}

\* The last call was a get_type_effectiveness that gave an attacking type
TypeQuery ==
  /\ CallIs(lastCall, "get_type_effectiveness")
  /\ IsSome(Get(lastCall).args.attacking_type)

AttackingArg == Get(Get(lastCall).args.attacking_type)

DefendingArg == Get(Get(lastCall).args.defending_type)

(* C18: get_type_effectiveness fails with the unknown-type error for every *)
(* attacking_type string that is not, letter case apart, one of the 18     *)
(* keys of the type chart, and succeeds for every string that is one.      *)
C18_UnknownTypeRejected ==
  /\ Cardinality(PokemonTypes) = 18
  /\ TypeQuery
       => IF KeysNamed(AttackingArg) = {}
            THEN Failed(lastResult, "UnknownType")
            ELSE Accepted(lastResult)

(* C19: for every attacking type and defending type of the chart,          *)
(* get_type_effectiveness returns the stored multiplier, or 1 when no      *)
(* entry is stored, classified as super effective when above 1, no effect  *)
(* when 0, not very effective when strictly between 0 and 1 and            *)
(* unannotated when exactly 1; the answer is that on every call, with or   *)
(* without a battle, and the call leaves the battle as it is.              *)
C19_StoredMultiplier ==
  ( /\ TypeQuery
    /\ IsSome(Get(lastCall).args.defending_type)
    /\ KeysNamed(AttackingArg) # {}
    /\ KeysNamed(DefendingArg) # {} )
  => LET atk == CHOOSE t \in KeysNamed(AttackingArg) : TRUE
         def == CHOOSE t \in KeysNamed(DefendingArg) : TRUE
         stored == TYPE_EFFECTIVENESS[atk]
         halves == IF def \in DOMAIN stored THEN stored[def] ELSE 2
     IN  /\ Accepted(lastResult)
         /\ Get(Get(lastResult).report).mult = halves
         /\ Get(Get(lastResult).report).msg =
               CASE halves > 2 -> "Super effective!"
                 [] halves = 0 -> "No effect!"
                 [] halves = 1 -> "Not very effective..."
                 [] halves = 2 -> ""
         /\ currentBattle = battleBefore

\* Fire against grass, asked in capitals after a battle has ended, is 2
C19_Witness ==
  /\ Phase(currentBattle) = "ended"
  /\ TypeQuery
  /\ AttackingArg = <<"F","I","R","E">>
  /\ Get(lastCall).args.defending_type = Some(TypeChars.grass)
  /\ Accepted(lastResult)
  /\ Get(Get(lastResult).report).mult = 4
  /\ Get(Get(lastResult).report).msg = "Super effective!"

(* C20: for every attacking type, the full breakdown returned without a    *)
(* defending type places each stored defending type in exactly one of the  *)
(* three buckets (super-effective for a multiplier above 1, not-very-      *)
(* effective for one strictly between 0 and 1, no-effect for 0), the       *)
(* buckets are pairwise disjoint, and no type with multiplier 1 is in any  *)
(* bucket.                                                                 *)
C20_BreakdownPartition ==
  ( /\ TypeQuery
    /\ ~IsSome(Get(lastCall).args.defending_type)
    /\ KeysNamed(AttackingArg) # {} )
  => LET atk == CHOOSE t \in KeysNamed(AttackingArg) : TRUE
         stored == TYPE_EFFECTIVENESS[atk]
         r == Get(Get(lastResult).report)
         Halves(d) == IF d \in DOMAIN stored THEN stored[d] ELSE 2
     IN  /\ Accepted(lastResult)
         /\ \A d \in DOMAIN stored :
              /\ d \in r.supers <=> stored[d] > 2
              /\ d \in r.nots <=> stored[d] = 1
              /\ d \in r.zeros <=> stored[d] = 0
              /\ Cardinality({bucket \in {"supers", "nots", "zeros"} :
                                d \in r[bucket]}) = 1
         /\ r.supers \cap r.nots = {}
         /\ r.supers \cap r.zeros = {}
         /\ r.nots \cap r.zeros = {}
         /\ \A d \in PokemonTypes :
              Halves(d) = 2 => d \notin r.supers \cup r.nots \cup r.zeros

\* A breakdown with none of its three buckets empty
C20_Witness ==
  /\ TypeQuery
  /\ ~IsSome(Get(lastCall).args.defending_type)
  /\ Accepted(lastResult)
  /\ LET r == Get(Get(lastResult).report)
     IN  r.supers # {} /\ r.nots # {} /\ r.zeros # {}

---------------------------------------------------------------------------
(* Properties of the name matching *)

\* The upper-case form of each lower-case letter
UpperOf ==
  [c \in Range(LowerChars) |->
     UpperChars[CHOOSE i \in DOMAIN LowerChars : LowerChars[i] = c]]

\* String.prototype.toUpperCase
toUpperCase(s) ==
  [i \in 1..Len(s) |-> IF s[i] \in DOMAIN UpperOf THEN UpperOf[s[i]] ELSE s[i]]

\* An optional string argument as given, in capitals and in small letters
CaseVariants(arg) ==
  IF IsSome(arg)
    THEN {arg, Some(toUpperCase(Get(arg))), Some(toLowerCase(Get(arg)))}
    ELSE {arg}

\* What the tool of the last call can return, from the state that call
\* found, when it is given these arguments
OutcomesOf(tool, args) ==
  CASE tool = "start_battle" -> start_battle(battleBefore, args)
    [] tool = "attack" ->
         {[battle |-> out.battle, result |-> out.result] :
            out \in attack(battleBefore, args)}
    [] tool = "get_pokemon_by_name" -> get_pokemon_by_name(battleBefore, args)
    [] tool = "get_type_effectiveness" ->
         get_type_effectiveness(battleBefore, args)

\* The arguments of the last call with its name arguments in other letter
\* case
ArgsInOtherCase(tool, args) ==
  CASE tool = "start_battle" ->
         {[args EXCEPT !.pokemon1_name = n1, !.pokemon2_name = n2] :
            n1 \in CaseVariants(args.pokemon1_name),
            n2 \in CaseVariants(args.pokemon2_name)}
    [] tool = "attack" ->
         {[args EXCEPT !.attacker_name = a, !.move_name = mv] :
            a \in CaseVariants(args.attacker_name),
            mv \in CaseVariants(args.move_name)}
    [] tool = "get_pokemon_by_name" ->
         {[args EXCEPT !.name = n] : n \in CaseVariants(args.name)}
    [] tool = "get_type_effectiveness" ->
         {[args EXCEPT !.attacking_type = atk, !.defending_type = def] :
            atk \in CaseVariants(args.attacking_type),
            def \in CaseVariants(args.defending_type)}

(* C21: species names (get_pokemon_by_name, start_battle), attacker names  *)
(* and move names (attack) and type names (get_type_effectiveness) are     *)
(* matched case-insensitively: the call made, and the same call with its   *)
(* names in capitals or in small letters, resolve to the same catalog      *)
(* entry, combatant, move or type, or all fail with the same error: they   *)
(* have the same possible outcomes.                                        *)
C21_CaseInsensitive ==
  IsSome(lastCall)
  => LET tool == Get(lastCall).tool
         args == Get(lastCall).args
     IN  /\ [battle |-> currentBattle, result |-> Get(lastResult)]
               \in OutcomesOf(tool, args)
         /\ \A other \in ArgsInOtherCase(tool, args) :
              OutcomesOf(tool, other) = OutcomesOf(tool, args)

\* A lookup by the name as the catalog spells it, which neither its capitals
\* nor its small letters are, found the species
C21_Witness ==
  /\ CallIs(lastCall, "get_pokemon_by_name")
  /\ Accepted(lastResult)
  /\ LET name == Get(Get(lastCall).args.name)
     IN  /\ Get(Get(lastResult).report).name = name
         /\ toUpperCase(name) # name
         /\ toLowerCase(name) # name

---------------------------------------------------------------------------
(* The server instances *)

\* What a tool of the battle can do to this battle with these arguments
BattleOutcomes(tool, args, battle) ==
  CASE tool = "start_battle" -> start_battle(battle, args)
    [] tool = "attack" ->
         {[battle |-> out.battle, result |-> out.result] :
            out \in attack(battle, args)}
    [] tool = "get_battle_status" -> get_battle_status(battle)

(* C22: all server instances (the stdio server and one server per HTTP     *)
(* session) operate on one and the same battle: whichever instance handles *)
(* a start_battle, attack or get_battle_status call, the call acts on the  *)
(* battle the call before it left, whichever instance handled that one,    *)
(* and the battle it leaves is the battle every instance reads.            *)
C22_OneBattleForAllServers ==
  IsSome(callers.call)
  => /\ [battle |-> currentBattle, result |-> Get(lastResult)]
          \in BattleOutcomes(Get(lastCall).tool, Get(lastCall).args,
                             battleBefore)
     /\ \A server \in Servers : ServerBattle(server) = currentBattle

\* An HTTP session's server accepted an attack in a battle that the server
\* of another HTTP session started, with the stdio server as the third
C22_Witness ==
  /\ CallIs(lastCall, "attack")
  /\ Accepted(lastResult)
  /\ IsSome(callers.call) /\ IsSome(callers.battle)
  /\ Get(callers.call) # Get(callers.battle)
  /\ {Get(callers.call), Get(callers.battle)} \subseteq httpTransports

---------------------------------------------------------------------------
(* The levels *)

\* The level argument was honoured: a given level is the level used, an
\* omitted one gives a level of the default range
LevelHonoured(levelArg, level) ==
  IF IsSome(levelArg) THEN level = Get(levelArg) ELSE level \in 20..70

(* C23: when a level argument is omitted in start_battle or in a lookup,   *)
(* the combatant's level is an integer in 20..70; when a numeric level is  *)
(* supplied, exactly that level is used.                                   *)
C23_LevelUsed ==
  Accepted(lastResult)
  => LET tool == Get(lastCall).tool
         args == Get(lastCall).args
     IN  /\ tool = "start_battle"
              => /\ LevelHonoured(args.pokemon1_level,
                                  Get(currentBattle).pokemon1.stats.level)
                 /\ LevelHonoured(args.pokemon2_level,
                                  Get(currentBattle).pokemon2.stats.level)
         /\ tool \in {"get_random_pokemon", "get_pokemon_by_name", "level"}
              => LevelHonoured(args.level, Get(Get(lastResult).report).level)

\* A battle started with the first level omitted and the second given
C23_Witness ==
  /\ CallIs(lastCall, "start_battle")
  /\ Accepted(lastResult)
  /\ ~IsSome(Get(lastCall).args.pokemon1_level)
  /\ Get(lastCall).args.pokemon2_level = Some(50)
  /\ Get(currentBattle).pokemon1.stats.level \in 20..70
  /\ Get(currentBattle).pokemon2.stats.level = 50

(* C24 as claimed: every combatant in a battle created by start_battle has *)
(* a level in 1..100; a start_battle call with a level argument outside    *)
(* 1..100 never produces a battle whose combatant has that level.          *)
C24_LevelInRange ==
  IsSome(currentBattle)
  => \A s \in Slots :
       Get(currentBattle)[s].stats.level \in MinLevel..MaxLevel

---------------------------------------------------------------------------
(* The random draws of an attack *)

\* The outcomes [battle, result] the last call, an attack, could have had
\* with the accuracy rolls of this set and the damage variance draw k, from
\* the state and with the arguments it had
AttackOutcomesWith(rolls, k) ==
  {[battle |-> out.battle, result |-> out.result] :
     out \in {o \in attack(battleBefore, Get(lastCall).args) :
                /\ o.draws.accuracyRoll \in {Some(roll) : roll \in rolls}
                /\ o.draws.damage \in {None, Some(k)}}}

(* C25 as claimed: the damage variance factor is the sole source of        *)
(* non-determinism of an attack: two attack calls made in the same battle  *)
(* state with the same attacker name, the same move name and the same      *)
(* damage variance factor produce the same outcome (hit or miss, damage,   *)
(* health of both combatants, turn counter, turn pointer, active flag).    *)
C25_VarianceAloneDecides ==
  CallIs(lastCall, "attack") /\ Accepted(lastResult)
  => \A k \in 0..(RandomSteps - 1) :
       Cardinality(AttackOutcomesWith(AccuracyRolls, k)) = 1

(* C25 as it holds: the accuracy roll and the damage variance factor are   *)
(* the only sources of non-determinism of an attack: two attack calls made *)
(* in the same battle state with the same attacker name, the same move     *)
(* name, the same accuracy roll and the same damage variance factor        *)
(* produce the same outcome, and the call made has such an outcome.        *)
C25_RollAndVarianceDecide ==
  CallIs(lastCall, "attack") /\ Accepted(lastResult)
  => /\ \A roll \in AccuracyRolls, k \in 0..(RandomSteps - 1) :
          Cardinality(AttackOutcomesWith({roll}, k)) = 1
     /\ \E k \in 0..(RandomSteps - 1) :
          [battle |-> currentBattle, result |-> Get(lastResult)]
            \in AttackOutcomesWith({Get(draws.accuracyRoll)}, k)

\* An attack hit with a move that another accuracy roll would have made miss
C25_Witness ==
  /\ CallIs(lastCall, "attack")
  /\ Accepted(lastResult)
  /\ IsSome(draws.damage)
  /\ \E out \in attack(battleBefore, Get(lastCall).args) :
       ~IsSome(out.draws.damage)

---------------------------------------------------------------------------
(* Progress of a battle *)

(* C26 as claimed: whenever a battle is active, an attack call that names  *)
(* the combatant whose turn it is together with one of that combatant's    *)
(* assigned moves is accepted: it fails with none of the not-found,        *)
(* wrong-turn or unknown-move errors, for every pair of catalog species,   *)
(* a pair of the same species included.                                    *)
C26_InTurnAttackAccepted ==
  ( /\ NamedAttack(lastCall)
    /\ IsActive(battleBefore)
    /\ toLowerCase(AttackerArg(lastCall)) = toLowerCase(AttackerBefore.name)
    /\ ~NotAssigned(AttackerBefore, MoveArg(lastCall)) )
  => ~ \/ Failed(lastResult, "NotFound")
       \/ Failed(lastResult, "WrongTurn")
       \/ Failed(lastResult, "UnknownMove")

---------------------------------------------------------------------------
(* The order of the attack checks *)

\* The combatant the attacker name of the last call resolves to in the
\* battle that call found, if any
NamedSlot == FindAttacker(Get(battleBefore), AttackerArg(lastCall))

(* C27: the attack checks are applied in a fixed order and the first       *)
(* failing check determines the error: no active battle, then attacker     *)
(* name matching neither combatant, then wrong turn, then unknown move. An *)
(* out-of-turn combatant naming a move it does not know gets the           *)
(* wrong-turn error, and any call made while no battle is active gets the  *)
(* no-active-battle error whatever its arguments.                          *)
C27_CheckOrder ==
  CallIs(lastCall, "attack")
  => /\ ~IsActive(battleBefore) => Failed(lastResult, "NoActiveBattle")
     /\ IsActive(battleBefore) /\ NamedAttack(lastCall)
          => LET b == Get(battleBefore)
             IN  IF \A s \in Slots :
                      toLowerCase(b[s].name)
                        # toLowerCase(AttackerArg(lastCall))
                   THEN Failed(lastResult, "NotFound")
                 ELSE IF Get(NamedSlot) # b.currentTurn
                   THEN Failed(lastResult, "WrongTurn")
                 ELSE IF NotAssigned(b[Get(NamedSlot)], MoveArg(lastCall))
                   THEN Failed(lastResult, "UnknownMove")
                 ELSE Accepted(lastResult)

\* The combatant whose turn it is not named a move that is not among its
\* moves, and the call failed with the wrong-turn error
C27_Witness ==
  /\ NamedAttack(lastCall)
  /\ IsActive(battleBefore)
  /\ IsSome(NamedSlot)
  /\ Get(NamedSlot) # Get(battleBefore).currentTurn
  /\ NotAssigned(Get(battleBefore)[Get(NamedSlot)], MoveArg(lastCall))
  /\ Failed(lastResult, "WrongTurn")

---------------------------------------------------------------------------
(* Calls of several sessions, interleaved *)

\* The health of the combatants of this battle
HealthOf(b) == [s \in Slots |-> b[s].stats.currentHp]

(* C28: when start_battle and attack calls issued by several sessions are  *)
(* interleaved in any order, each call takes effect atomically on the      *)
(* shared battle: in no state that a call can observe has damage been      *)
(* applied without the turn counter and turn pointer or the active flag    *)
(* updated, and within one battle no combatant makes two consecutive       *)
(* accepted attacks.                                                       *)
C28_AtomicCalls ==
  /\ CallIs(lastCall, "attack") /\ Accepted(lastResult)
       => LET before == Get(battleBefore)
              after  == Get(currentBattle)
          IN  HealthOf(after) # HealthOf(before)
                => \/ /\ ~after.active
                      /\ after.turn = before.turn
                      /\ after.currentTurn = before.currentTurn
                   \/ /\ after.active
                      /\ after.turn = before.turn + 1
                      /\ after.currentTurn # before.currentTurn
  /\ \A i \in 1..(Len(attackers) - 1) : attackers[i] # attackers[i + 1]

\* Three accepted attacks in one battle, the last of them a hit handled by
\* another server instance than the one that started the battle
C28_Witness ==
  /\ CallIs(lastCall, "attack")
  /\ Accepted(lastResult)
  /\ Len(attackers) >= 3
  /\ HealthOf(Get(currentBattle)) # HealthOf(Get(battleBefore))
  /\ IsSome(callers.battle)
  /\ callers.call # callers.battle

---------------------------------------------------------------------------
(* The effectiveness applied to damage *)

\* The product of the chart lookups for the move of the last hit against
\* the defender's types, and that product capped at 2
ChartProduct ==
  TypeProduct(MoveUsed.type, DefenderBefore.types, Len(DefenderBefore.types))

CappedProduct ==
  IF ChartProduct.num > 2 * ChartProduct.den
    THEN [num |-> 2, den |-> 1]
    ELSE ChartProduct

---------------------------------------------------------------------------
(* Health and the end of a battle *)

\* The slots of the combatants of this battle whose current health is 0
Fainted(b) == {s \in Slots : b[s].stats.currentHp = 0}

(* C30: in every reachable state with levels in 1..100: while the battle   *)
(* is active both combatants have current health > 0; once it has ended    *)
(* exactly one combatant has current health 0, that combatant is the       *)
(* defender of the last accepted attack, and the winner's current health   *)
(* is > 0.                                                                 *)
C30_HealthAndOutcome ==
  ( /\ IsSome(currentBattle)
    /\ \A s \in Slots :
         Get(currentBattle)[s].stats.level \in MinLevel..MaxLevel )
  => LET b == Get(currentBattle)
     IN  /\ b.active => \A s \in Slots : b[s].stats.currentHp > 0
         /\ ~b.active
              => /\ Len(attackers) > 0
                 /\ Fainted(b) = Slots \ {attackers[Len(attackers)]}
                 /\ b[attackers[Len(attackers)]].stats.currentHp > 0

\* A battle that ended on its third accepted attack or later
C30_Witness ==
  /\ Phase(currentBattle) = "ended"
  /\ Len(attackers) >= 3
  /\ CallIs(lastCall, "attack")
  /\ Accepted(lastResult)

---------------------------------------------------------------------------
(* The turn counter and the turn pointer *)

\* The combatant that acts first in this battle: the one that made the
\* first accepted attack, or before any attack the faster one, pokemon1
\* when the speeds are equal
Opener(b) ==
  IF Len(attackers) > 0 THEN attackers[1]
  ELSE IF b.pokemon1.stats.speed >= b.pokemon2.stats.speed THEN "pokemon1"
  ELSE "pokemon2"

(* C31: in every reachable state of a battle, the turn counter equals 1    *)
(* plus the number of accepted attacks since the last start_battle that    *)
(* did not end the battle, and the turn pointer designates the combatant   *)
(* that acted first exactly when the turn counter is odd.                  *)
C31_TurnCounterAndPointer ==
  IsSome(currentBattle)
  => LET b == Get(currentBattle)
         notEnding == IF b.active THEN Len(attackers) ELSE Len(attackers) - 1
     IN  /\ b.turn = 1 + notEnding
         /\ (b.currentTurn = Opener(b)) <=> (b.turn % 2 = 1)

\* An active battle at its fourth turn, after three accepted attacks, with
\* the turn pointer on the combatant that did not open
C31_Witness ==
  /\ IsActive(currentBattle)
  /\ Get(currentBattle).turn = 4
  /\ Len(attackers) = 3
  /\ Get(currentBattle).currentTurn # attackers[1]

---------------------------------------------------------------------------
(* What an attack leaves alone *)

\* What a combatant has besides its current health
Attributes(pokemon) ==
  [id        |-> pokemon.id,
   name      |-> pokemon.name,
   level     |-> pokemon.stats.level,
   hp        |-> pokemon.stats.hp,
   attack    |-> pokemon.stats.attack,
   defense   |-> pokemon.stats.defense,
   speed     |-> pokemon.stats.speed,
   types     |-> pokemon.types,
   moves     |-> pokemon.moves]

\* Both combatants have the attributes they had right after start_battle
AttributesAsAtStart ==
  \A s \in Slots :
    Attributes(Get(currentBattle)[s]) = Attributes(Get(battleAtStart)[s])

\* The slot of the combatant that made the last accepted attack
LastAttacker == attackers[Len(attackers)]

(* C32 as claimed: an accepted attack changes at most the defender's       *)
(* current health, the turn counter, the turn pointer and the active flag: *)
(* the attacker's current health, both combatants' level, maximum health,  *)
(* attack, defense, speed, types and assigned moves are the same after     *)
(* every attack call as they were right after start_battle.                *)
C32_SameAsAtStart ==
  CallIs(lastCall, "attack") /\ IsSome(currentBattle)
  => /\ AttributesAsAtStart
     /\ Accepted(lastResult)
          => Get(currentBattle)[LastAttacker].stats.currentHp
               = Get(battleAtStart)[LastAttacker].stats.currentHp

(* C32 as it holds: an accepted attack changes at most the defender's      *)
(* current health, the turn counter, the turn pointer and the active flag: *)
(* the attacker's current health is the same after the call as before it,  *)
(* and both combatants' level, maximum health, attack, defense, speed,     *)
(* types and assigned moves are the same after every attack call as they   *)
(* were right after start_battle.                                          *)
C32_AttackFrame ==
  CallIs(lastCall, "attack") /\ IsSome(currentBattle)
  => /\ AttributesAsAtStart
     /\ Accepted(lastResult)
          => Get(currentBattle)[LastAttacker].stats.currentHp
               = Get(battleBefore)[LastAttacker].stats.currentHp

\* An accepted hit by a combatant that an earlier attack of the battle has
\* damaged
C32_Witness ==
  /\ IsHit
  /\ Get(Get(lastResult).report).damage > 0
  /\ Get(currentBattle)[LastAttacker].stats.currentHp
       < Get(battleAtStart)[LastAttacker].stats.currentHp

---------------------------------------------------------------------------
(* Accuracy *)

(* C33: a move whose accuracy is 100 never misses: an accepted attack with *)
(* such a move always computes and applies damage; only moves with         *)
(* accuracy below 100 (Earthquake, Close Combat) can produce a miss.       *)
C33_FullAccuracyNeverMisses ==
  NamedAttack(lastCall) /\ Accepted(lastResult)
  => LET report == Get(Get(lastResult).report)
         target == DefenderSlot(Get(battleBefore).currentTurn)
     IN  /\ MoveUsed.accuracy = 100
              => /\ ~report.missed
                 /\ IsSome(draws.damage)
                 /\ report.damage
                      = calculateDamage(AttackerBefore, DefenderBefore,
                                        MoveUsed, Get(draws.damage))
                 /\ Get(currentBattle)[target].stats.currentHp
                      = Max(0, DefenderBefore.stats.currentHp - report.damage)
         /\ report.missed
              => /\ MoveUsed.accuracy < 100
                 /\ MoveUsed.name
                      \in {<<"E","a","r","t","h","q","u","a","k","e">>,
                           <<"C","l","o","s","e"," ","C","o","m","b","a","t">>}

\* A move of accuracy 100 hit with the highest accuracy roll
C33_Witness ==
  /\ IsHit
  /\ MoveUsed.accuracy = 100
  /\ draws.accuracyRoll = Some(99)
  /\ Get(Get(lastResult).report).damage > 0

---------------------------------------------------------------------------
(* The tools that only read *)

\* The tools that are said never to change the battle
ReadingTools ==
  {"get_battle_status", "get_type_effectiveness", "list_all_pokemon",
   "get_pokemon_by_name", "get_random_pokemon"}

(* C34: get_battle_status, get_type_effectiveness, list_all_pokemon,       *)
(* get_pokemon_by_name and get_random_pokemon never change the battle:     *)
(* whether they succeed or fail, the combatants, their health, the turn    *)
(* counter, the turn pointer and the active flag are the same before and   *)
(* after, and list_all_pokemon lists the catalog as it is defined. After a *)
(* battle has ended, get_battle_status still reports that battle, as over, *)
(* with its final health values and turn counter, not the no-battle        *)
(* response.                                                               *)
C34_QueriesLeaveBattle ==
  IsSome(lastCall) /\ Get(lastCall).tool \in ReadingTools
  => /\ currentBattle = battleBefore
     /\ CallIs(lastCall, "list_all_pokemon")
          => /\ Accepted(lastResult)
             /\ \A i \in DOMAIN POKEMON_DB :
                  Get(Get(lastResult).report).lines[i].name
                    = POKEMON_DB[i].name
     /\ CallIs(lastCall, "get_battle_status") /\ Phase(battleBefore) = "ended"
          => LET b == Get(battleBefore)
                 report == Get(Get(lastResult).report)
             IN  /\ Accepted(lastResult)
                 /\ report.header = "Battle Over"
                 /\ report.turn = b.turn
                 /\ report.hp1 = b.pokemon1.stats.currentHp
                 /\ report.hp2 = b.pokemon2.stats.currentHp

\* get_battle_status after the battle has ended: the loser is reported with
\* health 0
C34_Witness ==
  /\ CallIs(lastCall, "get_battle_status")
  /\ Phase(currentBattle) = "ended"
  /\ Get(Get(lastResult).report).header = "Battle Over"
  /\ Get(Get(lastResult).report).hp2 = 0

(* C35 as claimed: get_type_effectiveness with a valid attacking type and  *)
(* a defending_type string that is not a known type does not fail: it      *)
(* returns the neutral multiplier 1 with no classification; only the       *)
(* attacking type is validated.                                            *)
C35_UnknownDefenderIsNeutral ==
  ( /\ TypeQuery
    /\ IsSome(Get(lastCall).args.defending_type)
    /\ KeysNamed(AttackingArg) # {}
    /\ KeysNamed(DefendingArg) = {} )
  => /\ Accepted(lastResult)
     /\ Get(Get(lastResult).report).mult = 2
     /\ Get(Get(lastResult).report).msg = ""

---------------------------------------------------------------------------
(* The routes of the HTTP transport *)

\* The last request, its answer and the sessions it found
Request == Get(lastCall).args

Answer == Get(Get(lastResult).report)

\* The last request carries the id of a session that was registered
CarriesRegisteredId ==
  /\ IsSome(Request.sessionId)
  /\ Get(Request.sessionId) \in Answer.sessions

\* The last request carries no session id
CarriesNoId ==
  ~IsSome(Request.sessionId) \/ Get(Request.sessionId) = ""

\* The last request was answered with status 400 and changed no session
Refused ==
  /\ Get(lastResult).error = "400"
  /\ Answer.routedTo = None
  /\ Answer.created = None
  /\ httpTransports = Answer.sessions

(* C36: for POST /mcp, a request whose Mcp-Session-Id is registered is     *)
(* routed to that session's transport; a request with no session id whose  *)
(* body is an initialize request creates a new server and transport pair;  *)
(* every other request (an unregistered session id, even on an initialize  *)
(* request, or no session id on a non-initialize request) is answered with *)
(* status 400 and creates no session. GET and DELETE /mcp are answered     *)
(* with 400 unless they carry a registered session id.                     *)
C36_HttpRouting ==
  /\ CallIs(lastCall, "POST")
       => IF CarriesRegisteredId
            THEN /\ Get(lastResult).error = ""
                 /\ Answer.routedTo = Request.sessionId
                 /\ Answer.created = None
                 /\ httpTransports = Answer.sessions
          ELSE IF CarriesNoId /\ Request.isInitialize
            THEN /\ Get(lastResult).error = ""
                 /\ IsSome(Answer.created)
                 /\ Get(Answer.created) \notin Answer.sessions
                 /\ httpTransports
                      = Answer.sessions \cup {Get(Answer.created)}
          ELSE Refused
  /\ CallIs(lastCall, "GET") \/ CallIs(lastCall, "DELETE")
       => IF CarriesRegisteredId
            THEN /\ Get(lastResult).error = ""
                 /\ Answer.routedTo = Request.sessionId
                 /\ Answer.created = None
          ELSE Refused

\* An initialize request that carries an id no open session has, while
\* another session is open, was answered with 400
C36_Witness ==
  /\ CallIs(lastCall, "POST")
  /\ Request.isInitialize
  /\ Request.sessionId = Some("http1")
  /\ httpTransports = {"http2"}
  /\ Refused

=============================================================================
